---- MODULE Spec2Model ----
(***************************************************************************)
(* ChatCompanion detection pipeline: rule engine, context classifiers,     *)
(* score aggregator, risk classifier and explanation generator.            *)
(*                                                                         *)
(* Scores are Python floats in the source.  They are modelled as exact     *)
(* fixed-point numbers: a category score s is the integer s * ScoreOne,    *)
(* an overall score o is the integer o * OverallOne.  The two units are    *)
(* chosen so that every product the code forms (x0.35, x0.3, x0.4, the     *)
(* aggregator weights, 0.55*max, 0.35*avg, ...) is an integer.             *)
(***************************************************************************)
EXTENDS Integers, Sequences, FiniteSets, TLC

VARIABLES
    pc,      \* position of the caller: "ready" (call pending) or "done"
    engine,  \* fields of the constructed DetectionEngine / ScoreAggregator
    call,    \* the pending call: operation name and its arguments
    ret      \* the value returned by the call

vars == <<pc, engine, call, ret>>

(***************************************************************************)
(* Bounds of the model                                                     *)
(***************************************************************************)
\* largest number of categories present in a score map handed to the
\* aggregator directly
MaxCats == 5
\* largest number of lines of a text handed to the rule engine directly
MaxRuleLines == 2
\* largest number of pattern hits in one line of such a text
MaxRuleHits == 1
\* largest number of lines of a text handed to DetectionEngine.analyze
MaxLines == 2
\* largest number of pattern hits in such a text
MaxHits == 2

(***************************************************************************)
(* constants.py                                                            *)
(***************************************************************************)
RiskCategory ==
    {"bullying", "manipulation", "pressure", "secrecy", "guilt_shifting", "grooming"}

GREEN == "green"
YELLOW == "yellow"
RED == "red"
RiskLevel == {GREEN, YELLOW, RED}

(***************************************************************************)
(* Fixed-point representation of the float scores                          *)
(***************************************************************************)
ScoreOne == 20 * 20 * 10 * 10 * 5
OverallPerScore == 20 * 60
OverallOne == ScoreOne * OverallPerScore

\* x * num / den on category scores
Times(x, num, den) == (x * num) \div den
\* a score given in twentieths (0.05 steps)
Twentieths(k) == k * (ScoreOne \div 20)
\* num/den of 1.0 as an overall score
OverallFrac(num, den) == (OverallOne \div den) * num
\* a category score x scaled by num/den, as an overall score
ToOverall(x, num, den) == x * ((OverallPerScore \div den) * num)

Min(a, b) == IF a <= b THEN a ELSE b
Max(a, b) == IF a >= b THEN a ELSE b

\* sequences over S of length at most n
SeqsUpTo(S, n) == UNION {[1..k -> S] : k \in 0..n}

\* RISK_THRESHOLDS (overall scores)
RISK_THRESHOLDS ==
    [green |-> 0, yellow |-> OverallFrac(3, 10), red |-> OverallFrac(3, 4)]

NoEngine == [kind |-> "none"]
NoRet == [kind |-> "none"]

(***************************************************************************)
(* Text.  A text is a sequence of lines; a line is a phrase (one of the    *)
(* token kinds below), followed by the matched texts of the patterns that  *)
(* hit in it, followed by a run of `delim` sentence delimiters [.!?].      *)
(* A regular expression of the source is modelled by the feature it looks  *)
(* for: a phrase has a feature iff the expression finds a match in it.     *)
(***************************************************************************)
\* phrase kind |-> raw length, length after slang normalisation, features of
\* the normalised phrase.  Features:
\*   joking      engine.py:320-323 just kidding|joking|laughing|haha|hehe
\*   repair      engine.py:370-374 jk|just kidding|kidding|all good|no worries|
\*                                 my bad|didn't mean it
\*   repair_hb   engine.py:439-441 jk|just kidding|all good|no worries|my bad
\*   threat_hb   engine.py:419-422 or else|we're done if|if you don't|unless you
\*   severe      engine.py:427-429 worthless|kill yourself|stfu|shut up|...
\*   work        engine.py:517-521 bug|fix|deadline|...
\*   attack      engine.py:528-531 you're so stupid|kill yourself|hate you
\*   suppress    rule_engine.py:213-219 no pressure|no rush|no worries|...
\*   self_report rule_engine.py:75-81  i'm busy right now|can't now|no pressure
\*   demand      rule_engine.py:90-98  answer|reply|you must|or else|we're done
\*   demand_adj  rule_engine.py:126    answer|reply|...|you (have to|must)
\*   threat_ex   explainer.py:93,100   or else|we're done|i'm done|it's over
\*   now         rule_engine.py:66     right now|now     (of a matched text)
\*   strong      rule_engine.py:229-231 or else|we're done|must|have to
\*                                                        (of a matched text)
Phrases ==
    [plain      |-> [raw |-> 220, norm |-> 220, feat |-> {}],
     lol        |-> [raw |-> 3,  norm |-> 8,  feat |-> {"joking"}],
     jk         |-> [raw |-> 2,  norm |-> 12, feat |-> {"joking", "repair", "repair_hb"}],
     didnt      |-> [raw |-> 14, norm |-> 14, feat |-> {"repair"}],
     noworries  |-> [raw |-> 10, norm |-> 10, feat |-> {"repair", "repair_hb", "suppress"}],
     orelse     |-> [raw |-> 7,  norm |-> 7,
                     feat |-> {"threat_hb", "demand", "threat_ex"}],
     stfu       |-> [raw |-> 4,  norm |-> 7,  feat |-> {"severe"}],
     deadline   |-> [raw |-> 8,  norm |-> 8,  feat |-> {"work"}],
     nopressure |-> [raw |-> 11, norm |-> 11, feat |-> {"suppress", "self_report"}],
     busy       |-> [raw |-> 18, norm |-> 18, feat |-> {"self_report"}],
     answer     |-> [raw |-> 9,  norm |-> 9,  feat |-> {"demand", "demand_adj"}]]

\* speaker label "A: " / "B: "; slang normalisation turns "B" into "be"
LabelRaw == 3
LabelNorm(speaker) == IF speaker = "B" THEN 4 ELSE 3

(***************************************************************************)
(* patterns.py, rule_engine.py:_load_rules.  The registry is loaded once   *)
(* from the rules configuration; a pattern carries its category, its       *)
(* confidence (in twentieths), the keywords the source looks for in its    *)
(* description, and the length and features of the text it matches.        *)
(***************************************************************************)
\*   insult      "Mild insults"                             you're dumb
\*   severe      "Severe insults"                           worthless
\*   conditional "Guilt-inducing conditional statements"    if you were a friend
\*   urgent      "Urgency and immediate demands"            hurry up
\*   rightnow    "Urgency and immediate demands"            right now
\*   asap        "Emotional pressure to respond right now"  answer me right now
\*   ultimatum   "Ultimatum or relationship threat"         or we're done
\*   secret      "Secrecy demands and isolation"            don't tell anyone
\*   guilt       "Conditional care"                         if you cared
\*   groom       "Inappropriate trust building"             our special bond
Registry ==
    [insult      |-> [category |-> "bullying", confidence |-> 10, len |-> 11,
                      desc |-> {}, feat |-> {}],
     severe      |-> [category |-> "bullying", confidence |-> 18, len |-> 9,
                      desc |-> {"severe"}, feat |-> {"severe"}],
     conditional |-> [category |-> "manipulation", confidence |-> 12, len |-> 20,
                      desc |-> {"guilt-inducing", "conditional"}, feat |-> {}],
     urgent      |-> [category |-> "pressure", confidence |-> 14, len |-> 8,
                      desc |-> {"urgency", "immediate"}, feat |-> {}],
     rightnow    |-> [category |-> "pressure", confidence |-> 14, len |-> 9,
                      desc |-> {"urgency", "immediate"}, feat |-> {"now"}],
     asap        |-> [category |-> "pressure", confidence |-> 14, len |-> 19,
                      desc |-> {"emotional pressure", "respond right now"},
                      feat |-> {"now", "demand", "demand_adj"}],
     ultimatum   |-> [category |-> "pressure", confidence |-> 17, len |-> 13,
                      desc |-> {"ultimatum", "relationship threat"},
                      feat |-> {"strong", "demand", "threat_ex"}],
     secret      |-> [category |-> "secrecy", confidence |-> 18, len |-> 17,
                      desc |-> {"secrecy", "isolation"}, feat |-> {}],
     guilt       |-> [category |-> "guilt_shifting", confidence |-> 12, len |-> 12,
                      desc |-> {"conditional care", "conditional", "care"},
                      feat |-> {}],
     groom       |-> [category |-> "grooming", confidence |-> 14, len |-> 16,
                      desc |-> {"trust"}, feat |-> {}]]

\* PatternRegistry.get_all_patterns: the patterns in configuration order
get_all_patterns ==
    <<"insult", "severe", "conditional", "urgent", "rightnow", "asap", "ultimatum",
      "secret", "guilt", "groom">>

\* order in which the categories appear in the configuration
CategoryOrder ==
    <<"bullying", "manipulation", "pressure", "secrecy", "guilt_shifting", "grooming">>

(***************************************************************************)
(* Geometry of a text: lengths and character positions                     *)
(***************************************************************************)
RECURSIVE HitsLen(_)
\* length of the matched texts of a line, each preceded by one space
HitsLen(hits) ==
    IF hits = <<>> THEN 0
    ELSE 1 + Registry[Head(hits)].len + HitsLen(Tail(hits))

\* a line: [speaker |-> "" | "A" | "B", phrase, hits, delim]
\* length of a line in the text handed to the rule engine (slang normalised)
NormLineLen(line) ==
    (IF line.speaker = "" THEN 0 ELSE LabelNorm(line.speaker))
    + Phrases[line.phrase].norm + HitsLen(line.hits)

\* length of a line in the raw text
RawLineLen(line) ==
    (IF line.speaker = "" THEN 0 ELSE LabelRaw)
    + Phrases[line.phrase].raw + HitsLen(line.hits)

RECURSIVE NormStart(_, _)
\* position of line i in the normalised text: lines are separated by their
\* delimiter run and one white-space character (normalize_text)
NormStart(lines, i) ==
    IF i = 1 THEN 0
    ELSE NormStart(lines, i - 1) + NormLineLen(lines[i - 1]) + lines[i - 1].delim + 1

RECURSIVE RawStart(_, _)
RawStart(lines, i) ==
    IF i = 1 THEN 0
    ELSE RawStart(lines, i - 1) + RawLineLen(lines[i - 1]) + lines[i - 1].delim + 1

\* match.start() of the k-th hit of line i
HitPosition(lines, i, k) ==
    NormStart(lines, i)
    + (IF lines[i].speaker = "" THEN 0 ELSE LabelNorm(lines[i].speaker))
    + Phrases[lines[i].phrase].norm
    + HitsLen(SubSeq(lines[i].hits, 1, k - 1)) + 1

RECURSIVE HitsFeat(_)
HitsFeat(hits) ==
    IF hits = <<>> THEN {}
    ELSE Registry[Head(hits)].feat \cup HitsFeat(Tail(hits))

\* what the regular expressions of the source find in a line
LineFeat(line) == Phrases[line.phrase].feat \cup HitsFeat(line.hits)

\* re.search(pattern, text) for the patterns of feature f
TextHas(lines, f) == \E i \in 1..Len(lines) : f \in LineFeat(lines[i])

(***************************************************************************)
(* text_processing.py                                                      *)
(***************************************************************************)
RECURSIVE SentencesFrom(_, _, _)
SentencesFrom(lines, first, i) ==
    IF i > Len(lines) THEN <<>>
    ELSE IF lines[i].delim > 0 \/ i = Len(lines)
         THEN <<[first |-> first, last |-> i]>> \o SentencesFrom(lines, i + 1, i + 1)
         ELSE SentencesFrom(lines, first, i + 1)

\* segment_sentences: split on [.!?]+, strip; a sentence is the run of lines
\* between two delimiter runs
segment_sentences(lines) == SentencesFrom(lines, 1, 1)

\* len(sentence), the sentence stripped
SentenceLen(lines, s) ==
    NormStart(lines, s.last) + NormLineLen(lines[s.last]) - NormStart(lines, s.first)

SentenceFeat(lines, s) == UNION {LineFeat(lines[i]) : i \in s.first..s.last}

RECURSIVE FindSentence(_, _, _, _, _)
\* the loop of get_sentence_context: index of the first sentence whose window
\* [current_pos, current_pos + len) holds the position, 0 if there is none
FindSentence(lines, sentences, i, current_pos, position) ==
    IF i > Len(sentences) THEN 0
    ELSE LET sentence_end == current_pos + SentenceLen(lines, sentences[i])
         IN IF current_pos <= position /\ position < sentence_end
            THEN i
            ELSE FindSentence(lines, sentences, i + 1, sentence_end + 1, position)

\* get_sentence_context: the indexes of the sentences joined into the context
\* (the empty set is the empty string)
get_sentence_context(lines, position, window) ==
    LET sentences == segment_sentences(lines)
        sentence_index == FindSentence(lines, sentences, 1, 0, position)
    IN IF sentence_index = 0 THEN {}
       ELSE Max(1, sentence_index - window)..Min(Len(sentences), sentence_index + window)

(***************************************************************************)
(* rule_engine.py: RuleEngine                                              *)
(***************************************************************************)
\* RuleEngine._check_pressure_context
_check_pressure_context(lines, match_position, pattern) ==
    IF "now" \notin Registry[pattern].feat THEN TRUE
    ELSE LET sentences == segment_sentences(lines)
             context == get_sentence_context(lines, match_position, 1)
             ContextHas(f) ==
                 \E k \in context : f \in SentenceFeat(lines, sentences[k])
             current_sentence_idx == FindSentence(lines, sentences, 1, 0, match_position)
         IN IF ContextHas("self_report") THEN FALSE
            ELSE IF ContextHas("demand") THEN TRUE
            ELSE IF /\ current_sentence_idx > 0
                    /\ \E check_idx \in {current_sentence_idx - 1, current_sentence_idx + 1} :
                          /\ 1 <= check_idx /\ check_idx <= Len(sentences)
                          /\ "demand_adj" \in SentenceFeat(lines, sentences[check_idx])
                 THEN TRUE
                 ELSE TRUE

RECURSIVE LineHits(_, _, _)
LineHits(lines, i, k) ==
    IF k > Len(lines[i].hits) THEN <<>>
    ELSE <<[pattern |-> lines[i].hits[k], position |-> HitPosition(lines, i, k),
            confidence |-> Twentieths(Registry[lines[i].hits[k]].confidence)]>>
         \o LineHits(lines, i, k + 1)

RECURSIVE TextHits(_, _)
\* every regex hit of the text, by position
TextHits(lines, i) ==
    IF i > Len(lines) THEN <<>>
    ELSE LineHits(lines, i, 1) \o TextHits(lines, i + 1)

RECURSIVE DetectFrom(_, _)
\* the loop of detect over the patterns; a pressure hit is kept only if the
\* context gate lets it pass
DetectFrom(lines, n) ==
    IF n > Len(get_all_patterns) THEN <<>>
    ELSE LET pattern == get_all_patterns[n]
             Kept(m) ==
                 /\ m.pattern = pattern
                 /\ (Registry[pattern].category = "pressure"
                        => _check_pressure_context(lines, m.position, pattern))
         IN SelectSeq(TextHits(lines, 1), Kept) \o DetectFrom(lines, n + 1)

\* RuleEngine.detect: category |-> list of PatternMatch
ByCategory(found) ==
    [c \in {Registry[found[j].pattern].category : j \in 1..Len(found)} |->
        SelectSeq(found, LAMBDA m : Registry[m.pattern].category = c)]

detect(lines) == ByCategory(DetectFrom(lines, 1))

\* RuleEngine.get_category_score
get_category_score(matches) ==
    IF matches = <<>> THEN 0
    ELSE LET max_confidence ==
                 CHOOSE x \in {matches[j].confidence : j \in 1..Len(matches)} :
                     \A j \in 1..Len(matches) : matches[j].confidence <= x
             match_count_boost ==
                 IF Len(matches) >= 3
                 THEN Min((Len(matches) - 2) * Twentieths(1), Twentieths(4))
                 ELSE IF Len(matches) >= 2 THEN Twentieths(1)
                 ELSE 0
         IN Min(max_confidence + match_count_boost, ScoreOne)

\* a suppression that empties the match list of every category
SuppressPressure_all(lines, detected) == IF TextHas(lines, "suppress") THEN [c \in DOMAIN detected |-> <<>>] ELSE detected

\* RuleEngine.analyze
SuppressPressure(lines, detected) ==
    LET has_suppression == TextHas(lines, "suppress")
        has_contradiction ==
            /\ has_suppression
            /\ "pressure" \in DOMAIN detected
            /\ \E j \in 1..Len(detected["pressure"]) :
                  "strong" \in Registry[detected["pressure"][j].pattern].feat
    IN IF has_suppression /\ ~has_contradiction /\ "pressure" \in DOMAIN detected
       THEN [detected EXCEPT !["pressure"] = <<>>]
       ELSE detected

ScoreMatches(matches_by_category) ==
    [category_scores |->
        [c \in DOMAIN matches_by_category |-> get_category_score(matches_by_category[c])],
     matches |-> matches_by_category]

RuleEngine_analyze(lines) == ScoreMatches(SuppressPressure(lines, detect(lines)))

(***************************************************************************)
(* aggregator.py: ScoreAggregator                                          *)
(***************************************************************************)
\* the empty dict
EmptyMap == [c \in {} |-> 0]

\* max(scores) over a non-empty dict
MaxScore(category_scores) ==
    CHOOSE x \in {category_scores[c] : c \in DOMAIN category_scores} :
        \A c \in DOMAIN category_scores : category_scores[c] <= x

RECURSIVE SumOver(_, _)
SumOver(category_scores, S) ==
    IF S = {} THEN 0
    ELSE LET c == CHOOSE d \in S : TRUE
         IN category_scores[c] + SumOver(category_scores, S \ {c})

\* sum(scores)
SumScores(category_scores) == SumOver(category_scores, DOMAIN category_scores)

\* get_overall_risk_score without the boost of the two-category branch
get_overall_risk_score_noboost(category_scores) ==
    IF DOMAIN category_scores = {} THEN 0
    ELSE LET max_score == MaxScore(category_scores)
             num_categories == Cardinality(DOMAIN category_scores)
             sum_scores == SumScores(category_scores)
         IN IF max_score >= Times(ScoreOne, 8, 10)
            THEN ToOverall(max_score, 1, 1)
            ELSE IF num_categories >= 3
            THEN LET pattern_boost ==
                         Min((num_categories - 2) * OverallFrac(12, 100),
                             OverallFrac(25, 100))
                     combined ==
                         ToOverall(max_score, 11, 20)
                         + ToOverall(sum_scores, 7, 20 * num_categories)
                         + pattern_boost
                 IN Min(combined, OverallOne)
            ELSE IF num_categories >= 2
            THEN LET combined ==
                         ToOverall(max_score, 13, 20)
                         + ToOverall(sum_scores, 1, 4 * num_categories)
                 IN Min(combined, OverallOne)
            ELSE ToOverall(max_score, 1, 1)

\* get_overall_risk_score with the boost cap of the 3+ category branch left
\* at its former value 0.2
get_overall_risk_score_cap(category_scores) ==
    IF DOMAIN category_scores = {} THEN 0
    ELSE LET max_score == MaxScore(category_scores)
             num_categories == Cardinality(DOMAIN category_scores)
             sum_scores == SumScores(category_scores)
         IN IF max_score >= Times(ScoreOne, 8, 10)
            THEN ToOverall(max_score, 1, 1)
            ELSE IF num_categories >= 3
            THEN LET pattern_boost ==
                         Min((num_categories - 2) * OverallFrac(12, 100),
                             OverallFrac(20, 100))
                     combined ==
                         ToOverall(max_score, 11, 20)
                         + ToOverall(sum_scores, 7, 20 * num_categories)
                         + pattern_boost
                 IN Min(combined, OverallOne)
            ELSE IF num_categories >= 2
            THEN LET combined ==
                         ToOverall(max_score, 13, 20)
                         + ToOverall(sum_scores, 1, 4 * num_categories)
                         + OverallFrac(1, 10)
                 IN Min(combined, OverallOne)
            ELSE ToOverall(max_score, 1, 1)

\* ScoreAggregator.get_overall_risk_score; the result is an overall score
get_overall_risk_score(category_scores) ==
    IF DOMAIN category_scores = {} THEN 0
    ELSE LET max_score == MaxScore(category_scores)
             num_categories == Cardinality(DOMAIN category_scores)
             sum_scores == SumScores(category_scores)
         IN IF max_score >= Times(ScoreOne, 8, 10)
            THEN ToOverall(max_score, 1, 1)
            ELSE IF num_categories >= 3
            THEN LET pattern_boost ==
                         Min((num_categories - 2) * OverallFrac(12, 100),
                             OverallFrac(25, 100))
                     combined ==
                         ToOverall(max_score, 11, 20)
                         + ToOverall(sum_scores, 7, 20 * num_categories)
                         + pattern_boost
                 IN Min(combined, OverallOne)
            ELSE IF num_categories >= 2
            THEN LET combined ==
                         ToOverall(max_score, 13, 20)
                         + ToOverall(sum_scores, 1, 4 * num_categories)
                         + OverallFrac(1, 10)
                 IN Min(combined, OverallOne)
            ELSE ToOverall(max_score, 1, 1)

\* ScoreAggregator.__init__: the weights, in tenths, are normalised to sum 1;
\* a weight is kept as the fraction num / den
ScoreAggregator_init(rules_weight, ml_weight) ==
    LET total_weight == rules_weight + ml_weight
    IN IF total_weight > 0
       THEN [rules_weight |-> rules_weight, ml_weight |-> ml_weight, den |-> total_weight]
       ELSE [rules_weight |-> 1, ml_weight |-> 0, den |-> 1]

\* dict.get(category, 0.0)
GetScore(scores, c) == IF c \in DOMAIN scores THEN scores[c] ELSE 0

\* ScoreAggregator.aggregate_category_scores
aggregate_category_scores(aggregator, rules_scores, ml_scores) ==
    LET all_categories == DOMAIN rules_scores \cup DOMAIN ml_scores
    IN [category \in all_categories |->
           LET combined ==
                   (GetScore(rules_scores, category) * aggregator.rules_weight
                    + GetScore(ml_scores, category) * aggregator.ml_weight)
                   \div aggregator.den
           IN Min(combined, ScoreOne)]

(***************************************************************************)
(* engine.py: DetectionEngine, context classifiers                         *)
(***************************************************************************)
\* default weights of DetectionEngine.__init__, in tenths
DefaultRulesWeight == 6
DefaultMlWeight == 4

\* DetectionEngine.__init__: ml_available is set iff use_ml and the embedding
\* model could be loaded
DetectionEngine_init(use_ml, embedding_available) ==
    [kind |-> "DetectionEngine",
     aggregator |-> ScoreAggregator_init(DefaultRulesWeight, DefaultMlWeight),
     use_ml |-> use_ml,
     ml_available |-> use_ml /\ embedding_available,
     registry |-> get_all_patterns]

\* dict.get(category, [])
GetMatches(matches, c) == IF c \in DOMAIN matches THEN matches[c] ELSE <<>>

\* "keyword in match.pattern.description.lower()"
DescHas(m, keyword) == keyword \in Registry[m.pattern].desc

\* any(... for m in match_list) over the description keywords kws
AnyDesc(match_list, kws) ==
    \E j \in 1..Len(match_list) : \E kw \in kws : DescHas(match_list[j], kw)

\* DetectionEngine._extract_message_turns: (speaker, message) tuples; a message
\* is kept as the features the regular expressions find in it
_extract_message_turns(lines) ==
    LET labelled == SelectSeq(lines, LAMBDA l : l.speaker # "")
        message_pairs ==
            [j \in 1..Len(labelled) |->
                [speaker |-> labelled[j].speaker, feat |-> LineFeat(labelled[j])]]
    IN IF Len(message_pairs) > 1 THEN message_pairs
       ELSE IF Len(lines) <= 1
       THEN <<[speaker |-> "None",
               feat |-> UNION {LineFeat(lines[i]) : i \in 1..Len(lines)}]>>
       ELSE [i \in 1..Len(lines) |->
                [speaker |-> IF (i - 1) % 2 = 0 THEN "A" ELSE "B",
                 feat |-> LineFeat(lines[i])]]

\* turns[-n:]
LastTurns(turns, n) ==
    IF Len(turns) > n THEN SubSeq(turns, Len(turns) - n + 1, Len(turns)) ELSE turns

\* DetectionEngine._check_mutuality
_check_mutuality(turns) ==
    IF Len(turns) < 2 THEN FALSE
    ELSE LET recent_turns == LastTurns(turns, 6)
             speakers_with_joking ==
                 {recent_turns[j].speaker : j \in
                     {k \in 1..Len(recent_turns) :
                         /\ recent_turns[k].speaker # "None"
                         /\ "joking" \in recent_turns[k].feat}}
         IN Cardinality(speakers_with_joking) >= 2

\* DetectionEngine._check_repair_markers
_check_repair_markers(turns) ==
    IF Len(turns) = 0 THEN FALSE
    ELSE LET last_messages == LastTurns(turns, 3)
         IN \E j \in 1..Len(last_messages) : "repair" \in last_messages[j].feat

\* DetectionEngine._check_hard_blockers with the severe-insult check left out
_check_hard_blockers_nosevere(lines, matches) ==
    \/ \E category \in {"secrecy", "manipulation"} :
          AnyDesc(GetMatches(matches, category),
                  {"coercive control", "secrecy", "isolation", "proof", "delete",
                   "screenshot"})
    \/ TextHas(lines, "threat_hb")
    \/ /\ Len(GetMatches(matches, "bullying")) >= 2
       /\ ~TextHas(lines, "repair_hb")

\* DetectionEngine._check_hard_blockers
_check_hard_blockers(lines, matches) ==
    \/ \E category \in {"secrecy", "manipulation"} :
          AnyDesc(GetMatches(matches, category),
                  {"coercive control", "secrecy", "isolation", "proof", "delete",
                   "screenshot"})
    \/ TextHas(lines, "threat_hb")
    \/ TextHas(lines, "severe")
    \/ /\ Len(GetMatches(matches, "bullying")) >= 2
       /\ ~TextHas(lines, "repair_hb")

\* DetectionEngine._check_friendly_teasing_context
_check_friendly_teasing_context(lines, matches) ==
    IF _check_hard_blockers(lines, matches) THEN FALSE
    ELSE LET turns == _extract_message_turns(lines)
             has_mutuality == _check_mutuality(turns)
             has_repair == _check_repair_markers(turns)
         IN has_mutuality /\ has_repair

\* DetectionEngine._check_professional_context
_check_professional_context(lines) ==
    TextHas(lines, "work") /\ ~TextHas(lines, "attack")

\* DetectionEngine._determine_risk_level with the RED threshold at its former
\* value 0.8
_determine_risk_level_old(score) ==
    IF score >= OverallFrac(8, 10) THEN RED
    ELSE IF score >= RISK_THRESHOLDS[YELLOW] THEN YELLOW
    ELSE GREEN

\* DetectionEngine._determine_risk_level
_determine_risk_level(score) ==
    IF score >= RISK_THRESHOLDS[RED] THEN RED
    ELSE IF score >= RISK_THRESHOLDS[YELLOW] THEN YELLOW
    ELSE GREEN

(***************************************************************************)
(* explainer.py: ExplanationGenerator.  An explanation is the sequence of  *)
(* the parts the code joins; a part names the sentence (or the behaviour   *)
(* phrases) it holds and the categories the sentence is about.             *)
(***************************************************************************)
Part(kind, cats, text) == [part |-> kind, cats |-> cats, text |-> text]

\* the two sentences of the neutral statement
NeutralStatement ==
    <<Part("neutral", <<>>, <<"Analysis checked for patterns of ...">>),
      Part("neutral", <<>>, <<"No warning signs detected in this conversation.">>)>>

\* the sentences and behaviour phrases of the source that contain the word
\* "threat", "consequence" or "withdrawal"
ThreatWording ==
    {"emotional blackmail with threats to end the friendship",
     "threats of withdrawal of affection or attention if demands are not met",
     "pressure with threats of consequences",
     "severe threats or extreme insults that are clearly abusive",
     "secrecy demands with threats to end the relationship",
     "threats of withdrawal of affection or attention",
     "threats of withdrawal or relationship consequences",
     "threats of withdrawal of trust",
     "severe threats or extreme insults",
     "secrecy demands with relationship threats"}

\* all matches of a dict, category by category
AllMatches(matches) ==
    LET RECURSIVE Cat(_)
        Cat(n) == IF n > Len(CategoryOrder) THEN <<>>
                  ELSE GetMatches(matches, CategoryOrder[n]) \o Cat(n + 1)
    IN Cat(1)

\* position of the first threat marker of the raw text, -1 if there is none
\* (the slang normaliser leaves the threat phrases as they are)
ThreatPos(lines) ==
    LET Holds(i) == "threat_ex" \in LineFeat(lines[i])
    IN IF ~\E i \in 1..Len(lines) : Holds(i) THEN -1
       ELSE LET i == CHOOSE a \in 1..Len(lines) :
                         Holds(a) /\ \A b \in 1..(a - 1) : ~Holds(b)
                line == lines[i]
                start == RawStart(lines, i)
                         + (IF line.speaker = "" THEN 0 ELSE LabelRaw)
            IN IF "threat_ex" \in Phrases[line.phrase].feat THEN start
               ELSE LET InHit(k) == "threat_ex" \in Registry[line.hits[k]].feat
                        k == CHOOSE a \in 1..Len(line.hits) :
                                 InHit(a) /\ \A b \in 1..(a - 1) : ~InHit(b)
                    IN start + Phrases[line.phrase].raw
                       + HitsLen(SubSeq(line.hits, 1, k - 1)) + 1

\* the two tests of _has_threat_patterns (explainer.py:62-114) on the list of
\* all matches and the position of the first threat marker of the text
ThreatAmong(all, threat_pos) ==
       \/ \E j \in 1..Len(all) :
             \/ \E kw \in {"ultimatum", "relationship threat", "threats of withdrawal",
                           "or else", "we're done", "i'm done", "it's over"} :
                   DescHas(all[j], kw)
             \/ "threat_ex" \in Registry[all[j].pattern].feat
       \/ /\ threat_pos >= 0
          /\ \E j \in 1..Len(all) :
                LET d == threat_pos - all[j].position
                IN (IF d < 0 THEN -d ELSE d) < 200

\* ExplanationGenerator._has_threat_patterns; full_text = <<>> is the default ""
_has_threat_patterns(matches, full_text) ==
    ThreatAmong(AllMatches(matches), ThreatPos(full_text))

\* has_any_matches
HasAnyMatches(matches) == \E c \in DOMAIN matches : Len(matches[c]) > 0

RECURSIVE SortDesc(_, _)
\* list.sort(key=score, reverse=True): stable, highest score first
SortDesc(scores, cats) ==
    IF cats = <<>> THEN <<>>
    ELSE LET IsMax(k) == \A j \in 1..Len(cats) : scores[cats[j]] <= scores[cats[k]]
             k == CHOOSE a \in 1..Len(cats) : IsMax(a) /\ \A b \in 1..(a - 1) : ~IsMax(b)
         IN <<cats[k]>> \o SortDesc(scores, SubSeq(cats, 1, k - 1)
                                            \o SubSeq(cats, k + 1, Len(cats)))

\* detected_categories: the categories with a positive score, by score; keys
\* is the iteration order of the category_scores dict
DetectedCategories(category_scores, keys) ==
    SortDesc(category_scores, SelectSeq(keys, LAMBDA c : category_scores[c] > 0))

\* the sentence "Analysis detected patterns of <primary>[, with secondary
\* patterns of ...]" (explainer.py:209-289)
CategoryListPart(category_scores, matches, detected_categories) ==
    LET Evidence(c) == Len(GetMatches(matches, c)) > 0
        high_score_cats ==
            SelectSeq(detected_categories,
                      LAMBDA c : category_scores[c] >= Times(ScoreOne, 6, 10) /\ Evidence(c))
        moderate_cats ==
            SelectSeq(detected_categories,
                      LAMBDA c : /\ category_scores[c] >= Times(ScoreOne, 3, 10)
                                 /\ category_scores[c] < Times(ScoreOne, 6, 10)
                                 /\ Evidence(c))
        unique_detected == high_score_cats \o moderate_cats
        GroomingLow(c) ==
            c = "grooming" /\ category_scores["grooming"] < Times(ScoreOne, 6, 10)
        rest == IF unique_detected = <<>> THEN <<>> ELSE Tail(unique_detected)
        shifted == unique_detected # <<>> /\ GroomingLow(Head(unique_detected))
        primary ==
            IF unique_detected = <<>> THEN <<>>
            ELSE IF ~shifted THEN <<Head(unique_detected)>>
            ELSE IF rest # <<>> THEN <<Head(rest)>>
            ELSE <<>>
        secondary == IF shifted /\ rest # <<>> THEN Tail(rest) ELSE rest
        filtered_secondary == SelectSeq(secondary, LAMBDA c : ~GroomingLow(c))
    IN IF primary = <<>> THEN <<>>
       ELSE <<Part("detected", primary \o filtered_secondary,
                   <<"Analysis detected patterns of">>)>>

\* one narrative sentence about a category
Narrative(c, sentence) == <<Part("narrative", <<c>>, <<sentence>>)>>

\* has_guilt_shifting (explainer.py:293-295, 500-502)
HasGuiltShifting(category_scores, matches) ==
    \/ GetScore(category_scores, "guilt_shifting") >= Times(ScoreOne, 18, 100)
    \/ Len(GetMatches(matches, "guilt_shifting")) > 0

\* the chain on the primary category pressure / bullying / manipulation
\* (explainer.py:305-497)
PrimaryNarrative(top_category, top_score, category_scores, matches, original_text) ==
    LET strong == top_score >= Times(ScoreOne, 6, 10)
    IN IF top_category = "pressure" /\ strong
       THEN LET pressure_matches == GetMatches(matches, "pressure")
                has_threat == _has_threat_patterns(matches, original_text)
                has_strong_commands ==
                    AnyDesc(pressure_matches, {"strong pressure", "commands"})
                has_emotional_pressure ==
                    AnyDesc(pressure_matches, {"emotional pressure", "respond right now"})
                has_withdrawal == AnyDesc(pressure_matches, {"threats of withdrawal"})
                has_blackmail ==
                    AnyDesc(pressure_matches, {"emotional blackmail", "friendship threat"})
            IN Narrative("pressure",
                   IF has_threat
                   THEN IF has_blackmail
                        THEN "emotional blackmail with threats to end the friendship"
                        ELSE IF has_withdrawal
                        THEN "threats of withdrawal of affection or attention if demands are not met"
                        ELSE "pressure with threats of consequences"
                   ELSE IF has_strong_commands
                   THEN "strong pressure commands demanding immediate compliance"
                   ELSE IF has_emotional_pressure
                   THEN "emotional pressure to respond immediately"
                   ELSE IF HasGuiltShifting(category_scores, matches)
                   THEN "pressure or guilt-making language"
                   ELSE "pressure to act quickly or comply with demands")
       ELSE IF top_category = "bullying" /\ strong
       THEN LET bullying_matches == GetMatches(matches, "bullying")
                has_victim_blaming == AnyDesc(bullying_matches, {"victim-blaming", "victim"})
                has_demeaning == AnyDesc(bullying_matches, {"demeaning", "put-down"})
                has_severe ==
                    \E j \in 1..Len(bullying_matches) :
                        \/ DescHas(bullying_matches[j], "severe")
                        \/ bullying_matches[j].confidence >= Times(ScoreOne, 9, 10)
            IN Narrative("bullying",
                   IF has_victim_blaming /\ has_demeaning
                   THEN "direct insults, demeaning language, and victim-blaming"
                   ELSE IF has_victim_blaming THEN "victim-blaming statements"
                   ELSE IF has_demeaning THEN "demeaning language and put-downs designed to hurt"
                   ELSE IF has_severe
                   THEN "severe threats or extreme insults that are clearly abusive"
                   ELSE "mean comments and personal attacks")
       ELSE IF top_category = "manipulation" /\ strong
       THEN LET manip_matches == GetMatches(matches, "manipulation")
                has_coercive ==
                    AnyDesc(manip_matches, {"coercive control", "removing autonomy", "obedience"})
                has_fear == AnyDesc(manip_matches, {"fear", "deliberate use of fear"})
                has_privacy == AnyDesc(manip_matches, {"privacy invasion"})
                has_conditional == AnyDesc(manip_matches, {"conditional", "guilt-inducing"})
                has_forced_disclosure ==
                    AnyDesc(manip_matches, {"forced emotional disclosure"})
                has_proof_requests ==
                    \E j \in 1..Len(manip_matches) :
                        \/ DescHas(manip_matches[j], "demands for proof")
                        \/ DescHas(manip_matches[j], "proof")
                        \/ DescHas(manip_matches[j], "screenshot")
                        \/ (DescHas(manip_matches[j], "delete")
                            /\ DescHas(manip_matches[j], "prove"))
                has_boundary == AnyDesc(manip_matches, {"boundaries"})
                has_gaslighting ==
                    AnyDesc(manip_matches,
                            {"gaslighting", "reality-questioning", "perception-questioning"})
            IN Narrative("manipulation",
                   IF has_coercive /\ has_fear
                   THEN "coercive control and deliberate fear tactics"
                   ELSE IF has_coercive THEN "coercive control to remove your autonomy"
                   ELSE IF has_fear THEN "deliberately using fear to make you comply"
                   ELSE IF has_proof_requests THEN "proof-of-compliance requests"
                   ELSE IF has_forced_disclosure /\ has_conditional
                   THEN "conditional statements and forcing emotional disclosure"
                   ELSE IF has_conditional /\ has_gaslighting
                   THEN "conditional statements and reality-questioning language"
                   ELSE IF has_conditional
                   THEN "guilt-inducing conditional statements linking care or trust to compliance"
                   ELSE IF has_forced_disclosure THEN "forcing emotional disclosure"
                   ELSE IF has_gaslighting THEN "reality-questioning or perception-questioning"
                   ELSE IF has_privacy THEN "requests that invade privacy"
                   ELSE IF has_boundary THEN "framing boundaries as rejection"
                   ELSE "emotional pressure to control your behavior")
       ELSE <<>>

\* EXPLANATIONS[category]: the generic statement about a category
GenericExplanation(c) ==
    IF c \in RiskCategory THEN <<Part("generic", <<c>>, <<"EXPLANATIONS">>)>> ELSE <<>>

\* the second chain: guilt-shifting, secrecy, and the generic statement of the
\* YELLOW and RED branches (explainer.py:504-637)
SecondaryNarrative(risk_level, top_category, top_score, category_scores, matches, original_text) ==
    LET guilt_matches == GetMatches(matches, "guilt_shifting")
        has_guilt_shifting == HasGuiltShifting(category_scores, matches)
    IN IF top_category = "guilt_shifting" /\ top_score >= Times(ScoreOne, 5, 10)
       THEN Narrative("guilt_shifting",
                IF AnyDesc(guilt_matches, {"response time questioning"})
                THEN "guilt-shifting through questioning your response time"
                ELSE IF AnyDesc(guilt_matches, {"conditional care"})
                THEN "guilt-shifting through conditional statements about care"
                ELSE IF AnyDesc(guilt_matches, {"emotional blame"})
                THEN "guilt-shifting through blaming you for the other person's emotions"
                ELSE IF AnyDesc(guilt_matches, {"effort comparison"})
                THEN "guilt-shifting through comparing efforts"
                ELSE IF AnyDesc(guilt_matches, {"guilt induction", "direct guilt"})
                THEN "direct attempts to make you feel guilty"
                ELSE "attempts to make you feel responsible")
       ELSE IF has_guilt_shifting /\ top_category # "guilt_shifting"
       THEN IF guilt_matches # <<>>
            THEN Narrative("guilt_shifting",
                     IF AnyDesc(guilt_matches,
                                {"conditional care", "response time questioning"})
                     THEN "guilt-inducing conditional statements that were detected"
                     ELSE "guilt-shifting patterns that were detected")
            ELSE <<>>
       ELSE IF top_category = "secrecy" /\ top_score >= Times(ScoreOne, 6, 10)
       THEN LET secrecy_matches == GetMatches(matches, "secrecy")
                has_threat == _has_threat_patterns(matches, original_text)
                has_isolation == AnyDesc(secrecy_matches, {"isolation", "discouraging"})
                has_proof_destruction ==
                    \E j \in 1..Len(secrecy_matches) :
                        DescHas(secrecy_matches[j], "delete")
                        /\ DescHas(secrecy_matches[j], "prove")
                has_privacy_redef ==
                    \E j \in 1..Len(secrecy_matches) :
                        DescHas(secrecy_matches[j], "privacy")
                        /\ DescHas(secrecy_matches[j], "secrecy")
            IN Narrative("secrecy",
                   IF has_proof_destruction
                   THEN "secrecy demands with proof-of-compliance requests"
                   ELSE IF has_isolation
                   THEN "secrecy demands and attempts to isolate you from support"
                   ELSE IF has_threat
                   THEN "secrecy demands with threats to end the relationship"
                   ELSE IF has_privacy_redef
                   THEN "redefines privacy as keeping secrets"
                   ELSE "secrecy demands designed to isolate you from support")
       ELSE IF risk_level = YELLOW THEN GenericExplanation(top_category)
       ELSE IF risk_level = RED
       THEN IF top_category = "secrecy" /\ _has_threat_patterns(matches, <<>>)
            THEN Narrative("secrecy", "secrecy demands with threats to end the relationship")
            ELSE GenericExplanation(top_category)
       ELSE <<>>

\* a behaviour phrase about a category
Behavior(c, phrase) == <<[about |-> c, phrase |-> phrase]>>
BehaviorIf(cond, c, phrase) == IF cond THEN Behavior(c, phrase) ELSE <<>>

\* the behaviour phrases of one category (explainer.py:724-964)
CategoryBehaviors(category, category_matches, original_text) ==
    LET match_count == Len(category_matches)
        has_threat ==
            _has_threat_patterns([c \in {category} |-> category_matches], original_text)
    IN IF category = "pressure"
       THEN LET has_emotional_pressure ==
                    AnyDesc(category_matches, {"emotional pressure", "respond right now"})
                has_time_pressure ==
                    AnyDesc(category_matches, {"urgency", "time ultimatums", "immediate"})
                has_withdrawal_threats ==
                    AnyDesc(category_matches, {"withdrawal", "threats of withdrawal"})
            IN Behavior("pressure",
                   IF has_threat
                   THEN IF has_withdrawal_threats
                        THEN "threats of withdrawal of affection or attention"
                        ELSE "threats of withdrawal or relationship consequences"
                   ELSE IF has_emotional_pressure
                   THEN "emotional pressure to respond right now"
                   ELSE IF has_time_pressure /\ match_count >= 2
                   THEN "repeated demands for immediate response"
                   ELSE IF match_count >= 3 THEN "repeated demands for immediate action"
                   ELSE "pressure to comply with demands")
       ELSE IF category = "manipulation"
       THEN LET Both(a, b) ==
                    \E j \in 1..Len(category_matches) :
                        DescHas(category_matches[j], a) /\ DescHas(category_matches[j], b)
                has_privacy_invasion == AnyDesc(category_matches, {"privacy invasion"})
                has_trust_manipulation ==
                    AnyDesc(category_matches, {"trust manipulation"})
                    \/ Both("trust", "withdrawal")
                has_conditional ==
                    AnyDesc(category_matches, {"conditional", "guilt-inducing"})
                    \/ Both("care", "compliance")
                has_forced_disclosure ==
                    AnyDesc(category_matches, {"forced emotional disclosure"})
                has_proof_requests ==
                    AnyDesc(category_matches, {"demands for proof", "proof", "screenshot"})
                    \/ Both("delete", "prove")
                has_boundary_framing == AnyDesc(category_matches, {"boundaries", "rejection"})
                has_isolation == AnyDesc(category_matches, {"isolation"})
                has_gaslighting ==
                    AnyDesc(category_matches,
                            {"gaslighting", "reality-questioning", "perception-questioning"})
                has_coercive ==
                    AnyDesc(category_matches,
                            {"coercive control", "removing autonomy", "obedience"})
                has_fear == Both("fear", "deliberate")
                m == "manipulation"
            IN BehaviorIf(has_coercive, m, "coercive control and removal of autonomy")
               \o BehaviorIf(has_fear, m, "deliberate use of fear for compliance")
               \o BehaviorIf(has_proof_requests, m, "proof-of-compliance requests")
               \o BehaviorIf(has_forced_disclosure /\ ~has_proof_requests, m,
                             "forced emotional disclosure")
               \o BehaviorIf(has_conditional, m, "guilt-inducing conditional statements")
               \o BehaviorIf(has_gaslighting, m,
                             "reality-questioning or perception-questioning language")
               \o BehaviorIf(has_privacy_invasion, m, "requests that invade privacy")
               \o BehaviorIf(has_trust_manipulation, m, "threats of withdrawal of trust")
               \o BehaviorIf(has_boundary_framing, m, "framing boundaries as rejection")
               \o BehaviorIf(has_isolation, m, "isolation from support")
               \o BehaviorIf(~(\/ has_privacy_invasion \/ has_trust_manipulation
                               \/ has_conditional \/ has_forced_disclosure
                               \/ has_proof_requests \/ has_boundary_framing
                               \/ has_isolation \/ has_coercive \/ has_fear),
                             m,
                             IF match_count >= 2
                             THEN "repeated attempts to control behavior through emotional pressure"
                             ELSE "attempts to manipulate through emotional pressure")
       ELSE IF category = "guilt_shifting"
       THEN LET Both(a, b) ==
                    \E j \in 1..Len(category_matches) :
                        DescHas(category_matches[j], a) /\ DescHas(category_matches[j], b)
            IN Behavior("guilt_shifting",
                   IF AnyDesc(category_matches, {"importance questioning", "mattered"})
                   THEN "guilt-shifting through questioning your importance or care"
                   ELSE IF AnyDesc(category_matches, {"response time questioning"})
                           \/ Both("cared", "answered")
                   THEN "guilt-shifting through questioning your response time or attention"
                   ELSE IF AnyDesc(category_matches, {"conditional care"})
                   THEN "guilt-shifting through conditional statements about care"
                   ELSE IF AnyDesc(category_matches,
                                   {"effort questioning", "don't care", "effort comparison"})
                   THEN "guilt-shifting through questioning your effort or commitment"
                   ELSE IF AnyDesc(category_matches, {"emotional blame"})
                           \/ Both("make me feel", "because")
                   THEN "guilt-shifting through blaming you for their emotions"
                   ELSE IF AnyDesc(category_matches, {"guilt induction", "direct guilt"})
                   THEN "direct attempts to make you feel guilty"
                   ELSE IF match_count >= 2
                   THEN "repeated guilt induction and blame-shifting"
                   ELSE "attempts to shift blame or induce guilt")
       ELSE IF category = "bullying"
       THEN LET has_severe ==
                    \E j \in 1..Len(category_matches) :
                        \/ DescHas(category_matches[j], "severe")
                        \/ category_matches[j].confidence >= Times(ScoreOne, 9, 10)
            IN Behavior("bullying",
                   IF AnyDesc(category_matches, {"victim-blaming", "victim"})
                   THEN "victim-blaming and dismissive language"
                   ELSE IF AnyDesc(category_matches, {"demeaning", "put-down"})
                   THEN "demeaning language and put-downs"
                   ELSE IF has_severe THEN "severe threats or extreme insults"
                   ELSE "mean comments or personal attacks")
       ELSE IF category = "secrecy"
       THEN LET Both(a, b) ==
                    \E j \in 1..Len(category_matches) :
                        DescHas(category_matches[j], a) /\ DescHas(category_matches[j], b)
            IN Behavior("secrecy",
                   IF has_threat THEN "secrecy demands with relationship threats"
                   ELSE IF Both("delete", "prove")
                   THEN "secrecy demands with proof-of-compliance requests (delete messages)"
                   ELSE IF AnyDesc(category_matches, {"isolation", "discouraging"})
                   THEN "secrecy demands and isolation from support"
                   ELSE IF Both("privacy", "secrecy")
                   THEN "redefining privacy as keeping secrets"
                   ELSE "secrecy demands")
       ELSE IF category = "grooming"
       THEN Behavior("grooming", "inappropriate trust-building attempts")
       ELSE <<>>

\* items[:n]
FirstItems(items, n) == IF Len(items) > n THEN SubSeq(items, 1, n) ELSE items

RECURSIVE BehaviorsFrom(_, _, _, _, _)
\* the loop of _describe_behaviors over detected_categories
BehaviorsFrom(matches, category_scores, detected_categories, original_text, n) ==
    IF n > Len(detected_categories) THEN <<>>
    ELSE LET category == detected_categories[n]
             category_matches == GetMatches(matches, category)
             here ==
                 IF category_scores[category] < Times(ScoreOne, 3, 10)
                    \/ category_matches = <<>>
                 THEN <<>>
                 ELSE CategoryBehaviors(category, category_matches, original_text)
         IN here \o BehaviorsFrom(matches, category_scores, detected_categories,
                                  original_text, n + 1)

\* ExplanationGenerator._describe_behaviors: at most 4 behaviour phrases
_describe_behaviors(matches, category_scores, detected_categories, original_text) ==
    FirstItems(BehaviorsFrom(matches, category_scores, detected_categories,
                             original_text, 1), 4)

\* the severity footer (explainer.py:647-663)
SeverityFooter(risk_level, category_scores, detected_categories) ==
    IF risk_level = RED
    THEN <<Part("footer", <<>>, <<"This is a high-risk situation requiring immediate attention.">>)>>
    ELSE IF risk_level = YELLOW
    THEN LET strong_patterns ==
                 Cardinality({j \in 1..Len(detected_categories) :
                     category_scores[detected_categories[j]] >= Times(ScoreOne, 75, 100)})
         IN IF strong_patterns >= 2
            THEN <<Part("footer", <<>>, <<"Multiple concerning patterns detected.">>)>>
            ELSE <<Part("footer", <<>>, <<"Moderate concern">>)>>
    ELSE <<>>

\* the sentence "Observed behaviors include ..." (explainer.py:641-644)
ObservedPart(matches, behavior_descriptions) ==
    IF DOMAIN matches # {} /\ behavior_descriptions # <<>>
    THEN <<Part("observed",
                [j \in 1..Len(behavior_descriptions) |-> behavior_descriptions[j].about],
                [j \in 1..Len(behavior_descriptions) |-> behavior_descriptions[j].phrase])>>
    ELSE <<>>

\* the explanation of a conversation with detected categories
\* (explainer.py:209-665)
DetectedExplanation(risk_level, category_scores, detected_categories, matches, original_text) ==
    (IF detected_categories # <<>>
     THEN CategoryListPart(category_scores, matches, detected_categories)
          \o PrimaryNarrative(detected_categories[1],
                              category_scores[detected_categories[1]],
                              category_scores, matches, original_text)
          \o SecondaryNarrative(risk_level, detected_categories[1],
                                category_scores[detected_categories[1]],
                                category_scores, matches, original_text)
     ELSE <<>>)
    \o ObservedPart(matches,
                    _describe_behaviors(matches, category_scores, detected_categories,
                                        original_text))
    \o SeverityFooter(risk_level, category_scores, detected_categories)

\* ExplanationGenerator.generate_explanation; keys is the iteration order of
\* the category_scores dict
generate_explanation(risk_level, category_scores, keys, matches, overall_score, original_text) ==
    LET has_any_matches == HasAnyMatches(matches)
        has_meaningful_scores ==
            \E c \in DOMAIN category_scores : category_scores[c] >= Times(ScoreOne, 3, 10)
        low == risk_level = GREEN \/ overall_score < OverallFrac(3, 10)
    IN IF low /\ ~has_meaningful_scores /\ ~has_any_matches THEN NeutralStatement
       ELSE IF low /\ ~has_meaningful_scores THEN NeutralStatement
       ELSE IF ~has_any_matches /\ ~has_meaningful_scores THEN NeutralStatement
       ELSE IF risk_level = GREEN /\ has_any_matches THEN NeutralStatement
       ELSE DetectedExplanation(risk_level, category_scores,
                                DetectedCategories(category_scores, keys),
                                matches, original_text)

ADVICE_MESSAGES_GREEN ==
    <<"No strong patterns of bullying, manipulation, or grooming were detected.">>
ADVICE_MESSAGES_YELLOW ==
    <<"Some patterns of pressure or discomfort were detected.",
      "Consider setting clear boundaries and communicating your concerns directly.">>
ADVICE_MESSAGES_RED ==
    <<"If you feel unsafe, talk to a trusted person or support service immediately.">>

\* ExplanationGenerator.get_help_advice; given is FALSE when category_scores
\* and matches are left at their default None.  The synthesized first message
\* of RED is "Serious warning signs detected: " followed by the detected terms.
get_help_advice(risk_level, overall_score, given, category_scores, matches) ==
    IF risk_level = RED \/ overall_score >= OverallFrac(8, 10)
    THEN IF given /\ DOMAIN category_scores # {} /\ DOMAIN matches # {}
         THEN LET dominant_categories ==
                      {c \in DOMAIN category_scores :
                          category_scores[c] >= Times(ScoreOne, 6, 10)}
                  all == AllMatches(matches)
                  has_secrecy ==
                      \/ "secrecy" \in dominant_categories
                      \/ GetScore(category_scores, "secrecy") >= Times(ScoreOne, 6, 10)
                  has_isolation == AnyDesc(all, {"isolation", "discouraging"})
                  has_proof_requests == AnyDesc(all, {"proof", "delete"})
                  has_coercive ==
                      /\ "manipulation" \in dominant_categories
                      /\ GetScore(category_scores, "manipulation") >= Times(ScoreOne, 7, 10)
                  Term(cond, t) == IF cond THEN <<t>> ELSE <<>>
                  detected_terms ==
                      Term(has_coercive, "coercive control")
                      \o Term(has_secrecy, "secrecy demands")
                      \o Term(has_isolation, "isolation from support")
                      \o Term(has_proof_requests, "proof-of-compliance requests")
                      \o Term("bullying" \in dominant_categories, "bullying")
                      \o Term("grooming" \in dominant_categories, "grooming indicators")
              IN (IF detected_terms # <<>>
                  THEN <<"Serious warning signs detected: ">> \o detected_terms
                  ELSE <<"Serious warning signs detected: manipulation or pressure patterns.">>)
                 \o ADVICE_MESSAGES_RED
         ELSE ADVICE_MESSAGES_RED
    ELSE IF risk_level = YELLOW \/ overall_score >= OverallFrac(3, 10)
    THEN ADVICE_MESSAGES_YELLOW
    ELSE ADVICE_MESSAGES_GREEN

(***************************************************************************)
(* engine.py: DetectionEngine.analyze                                      *)
(***************************************************************************)
\* multiply the positive scores of the categories cats by num / den
ScaleIf(scores, cats, num, den) ==
    [c \in DOMAIN scores |->
        IF c \in cats /\ scores[c] > 0 THEN Times(scores[c], num, den) ELSE scores[c]]

\* the ML stage (engine.py:166-186).  The classifier is given by what it
\* returns: it raises, or it scores the first sentence `first` and every
\* other sentence `rest`.  ml_scores keeps the per-category maximum if > 0.
MLScores(eng, classifier, sentences) ==
    IF ~eng.ml_available \/ classifier.raises THEN EmptyMap
    ELSE LET sentence_scores ==
                 [i \in 1..Len(sentences) |->
                     IF i = 1 THEN classifier.first ELSE classifier.rest]
             MaxOf(c) ==
                 LET vals == {GetScore(sentence_scores[i], c) :
                                 i \in 1..Len(sentence_scores)} \cup {0}
                 IN CHOOSE x \in vals : \A y \in vals : y <= x
         IN [c \in {d \in RiskCategory : MaxOf(d) > 0} |-> MaxOf(c)]

\* stage-1 teasing reduction (engine.py:123-144): bullying only, and only
\* without secrecy or manipulation matches
TeasingReduction(category_scores, matches, is_friendly_teasing) ==
    IF /\ is_friendly_teasing
       /\ ~\E category \in {"secrecy", "manipulation"} :
              Len(GetMatches(matches, category)) > 0
    THEN ScaleIf(category_scores, {"bullying"}, 35, 100)
    ELSE category_scores

\* professional-context reduction (engine.py:146-156 and 208-212)
ProfessionalReduction(category_scores, is_professional_context) ==
    IF is_professional_context
    THEN ScaleIf(category_scores, {"pressure", "manipulation"}, 4, 10)
    ELSE category_scores

\* hybrid mode entered whenever ML is available, also with no ML scores
Hybrid_mlavailable(eng, ml_scores) == eng.ml_available

\* hybrid mode (engine.py:188): the ML stage returned scores
Hybrid(eng, ml_scores) == DOMAIN ml_scores # {} /\ eng.ml_available

\* aggregation of the two score dicts (engine.py:188-198)
Aggregated(eng, rules_scores, ml_scores) ==
    IF Hybrid(eng, ml_scores)
    THEN aggregate_category_scores(eng.aggregator, rules_scores, ml_scores)
    ELSE rules_scores

\* final teasing reduction (engine.py:202-206): every positive score
FinalTeasing(category_scores, is_friendly_teasing) ==
    IF is_friendly_teasing
    THEN ScaleIf(category_scores, DOMAIN category_scores, 3, 10)
    ELSE category_scores

\* the score pipeline of analyze (engine.py:123-212) on the result of the rule
\* engine and of the ML stage
ScorePipeline(eng, rules_result, ml_scores, is_friendly_teasing, is_professional_context) ==
    [category_scores |->
        ProfessionalReduction(
            FinalTeasing(
                Aggregated(eng,
                    ProfessionalReduction(
                        TeasingReduction(rules_result.category_scores,
                                         rules_result.matches, is_friendly_teasing),
                        is_professional_context),
                    ml_scores),
                is_friendly_teasing),
            is_professional_context),
     matches |-> rules_result.matches,
     hybrid |-> Hybrid(eng, ml_scores)]

\* the scores of analyze (engine.py:111-212) for given answers of the two
\* context classifiers
CategoryScores(eng, lines, classifier, is_friendly_teasing, is_professional_context) ==
    ScorePipeline(eng, RuleEngine_analyze(lines),
                  MLScores(eng, classifier, segment_sentences(lines)),
                  is_friendly_teasing, is_professional_context)

\* the evidence gate with its second forced GREEN left out
EvidenceGate_scoresonly(category_scores, matches, overall_score) ==
    LET has_any_matches == HasAnyMatches(matches)
        all_scores_below_threshold ==
            \A c \in DOMAIN category_scores : category_scores[c] < Times(ScoreOne, 3, 10)
    IN IF all_scores_below_threshold /\ ~has_any_matches
       THEN [risk_level |-> GREEN, overall_score |-> 0]
       ELSE [risk_level |-> _determine_risk_level(overall_score),
             overall_score |-> overall_score]

\* the evidence gate (engine.py:217-235)
EvidenceGate(category_scores, matches, overall_score) ==
    LET has_any_matches == HasAnyMatches(matches)
        all_scores_below_threshold ==
            \A c \in DOMAIN category_scores : category_scores[c] < Times(ScoreOne, 3, 10)
    IN IF all_scores_below_threshold /\ ~has_any_matches
       THEN [risk_level |-> GREEN, overall_score |-> 0]
       ELSE IF ~has_any_matches
       THEN [risk_level |-> GREEN, overall_score |-> 0]
       ELSE [risk_level |-> _determine_risk_level(overall_score),
             overall_score |-> overall_score]

\* the orders in which the keys of S can be iterated
Perms(S) ==
    {f \in [1..Cardinality(S) -> S] : \A i, j \in 1..Cardinality(S) : f[i] = f[j] => i = j}

\* iteration order of the category_scores dict: insertion order of the rule
\* matches in rules-only mode; in hybrid mode the dict is filled from a set of
\* strings, whose order varies from run to run
KeyOrders(category_scores, hybrid) ==
    IF hybrid THEN Perms(DOMAIN category_scores)
    ELSE {SelectSeq(CategoryOrder, LAMBDA c : c \in DOMAIN category_scores)}

\* the DetectionResults analyze can build (engine.py:237-263) from the scores
\* and the gated risk level
Results(eng, lines, scored, gate) ==
    {[kind |-> "DetectionResult",
      risk_level |-> gate.risk_level,
      overall_score |-> gate.overall_score,
      category_scores |-> scored.category_scores,
      explanation |-> generate_explanation(gate.risk_level, scored.category_scores, keys,
                                           scored.matches, gate.overall_score, lines),
      advice |-> get_help_advice(gate.risk_level, gate.overall_score, FALSE,
                                 EmptyMap, EmptyMap),
      matches |-> scored.matches,
      ml_available |-> eng.ml_available] :
         keys \in KeyOrders(scored.category_scores, scored.hybrid)}

\* overall score and evidence gate (engine.py:215-235)
Gated(eng, lines, scored) ==
    Results(eng, lines, scored,
            EvidenceGate(scored.category_scores, scored.matches,
                         get_overall_risk_score(scored.category_scores)))

\* analyze without the handler of engine.py:184-186: an exception of
\* classify_batch reaches the caller
AnalyzeWith_uncaught(eng, lines, classifier, is_friendly_teasing, is_professional_context) == IF eng.ml_available /\ classifier.raises THEN {[kind |-> "raised", error |-> "Exception"]} ELSE Gated(eng, lines, CategoryScores(eng, lines, classifier, is_friendly_teasing, is_professional_context))

\* analyze for given answers of the two context classifiers: the results it
\* can return
AnalyzeWith(eng, lines, classifier, is_friendly_teasing, is_professional_context) ==
    Gated(eng, lines, CategoryScores(eng, lines, classifier, is_friendly_teasing,
                                     is_professional_context))

\* DetectionEngine.analyze
DetectionEngine_analyze(eng, lines, classifier) ==
    LET matches == RuleEngine_analyze(lines).matches
    IN AnalyzeWith(eng, lines, classifier,
                   _check_friendly_teasing_context(lines, matches),
                   _check_professional_context(lines))

(***************************************************************************)
(* Calls of DetectionEngine.analyze on a constructed engine                *)
(***************************************************************************)
EnginePhrases == {"plain", "lol", "jk", "orelse", "deadline"}
EnginePatterns == {"insult", "severe", "conditional", "urgent", "secret", "guilt"}

\* index of a pattern in the registry
PatternIndex(p) == CHOOSE n \in 1..Len(get_all_patterns) : get_all_patterns[n] = p

\* the hits of a line, in registry order
EngineHits ==
    {h \in SeqsUpTo(EnginePatterns, MaxHits) :
        \A j \in 1..(Len(h) - 1) : PatternIndex(h[j]) <= PatternIndex(h[j + 1])}

\* speaker labels of a text: none, the same speaker on every line, or two
\* speakers taking turns
SpeakerModes == {"none", "same", "alt"}
SpeakerOf(mode, i) ==
    IF mode = "none" THEN ""
    ELSE IF mode = "same" THEN "A"
    ELSE IF i % 2 = 1 THEN "A" ELSE "B"

\* a text of one phrase per line, the pattern hits all in line hit_line
MakeText(mode, phrases, hits, hit_line) ==
    [i \in 1..Len(phrases) |->
        [speaker |-> SpeakerOf(mode, i), phrase |-> phrases[i],
         hits |-> IF i = hit_line THEN hits ELSE <<>>, delim |-> 1]]

EngineTexts ==
    {MakeText(mode, phrases, hits, hit_line) :
        mode \in SpeakerModes, phrases \in SeqsUpTo(EnginePhrases, MaxLines),
        hits \in EngineHits, hit_line \in 1..MaxLines}

\* a score map of the classifier, in quarters
MLMap(S, q) == [c \in S |-> Times(ScoreOne, q[c], 4)]

NoClassifier == [raises |-> FALSE, first |-> EmptyMap, rest |-> EmptyMap]

\* what the classifier of an engine with ML can do
Classifiers ==
    {NoClassifier,
     [raises |-> TRUE, first |-> EmptyMap, rest |-> EmptyMap],
     [raises |-> FALSE,
      first |-> MLMap({"bullying"}, [bullying |-> 4]),
      rest |-> MLMap({"bullying"}, [bullying |-> 2])],
     [raises |-> FALSE,
      first |-> MLMap({"pressure", "grooming"}, [pressure |-> 2, grooming |-> 0]),
      rest |-> MLMap({"pressure", "grooming"}, [pressure |-> 4, grooming |-> 0])],
     [raises |-> FALSE,
      first |-> MLMap({"secrecy", "guilt_shifting"}, [secrecy |-> 4, guilt_shifting |-> 4]),
      rest |-> MLMap({"secrecy", "guilt_shifting"}, [secrecy |-> 4, guilt_shifting |-> 4])]}

InitEngine ==
    /\ pc = "ready"
    /\ engine \in {DetectionEngine_init(use_ml, embedding_available) :
                      use_ml \in BOOLEAN, embedding_available \in BOOLEAN}
    /\ call \in {[op |-> "analyze", text |-> t, classifier |-> c] :
                    t \in EngineTexts, c \in Classifiers}
    /\ (~engine.ml_available => call.classifier = NoClassifier)
    /\ ret = NoRet

Analyze ==
    /\ pc = "ready"
    /\ call.op = "analyze"
    /\ ret' \in DetectionEngine_analyze(engine, call.text, call.classifier)
    /\ pc' = "done"
    /\ UNCHANGED <<engine, call>>

NextEngine == Analyze

SpecEngine == InitEngine /\ [][NextEngine]_vars

(***************************************************************************)
(* Direct calls of the aggregator on a score map                           *)
(***************************************************************************)
\* scores a category can carry in a directly supplied map
AggScores == {Twentieths(k) : k \in {0, 6, 12, 15, 16}}

ScoreMaps ==
    UNION {[S -> AggScores] :
              S \in {T \in SUBSET RiskCategory : Cardinality(T) <= MaxCats}}

InitAgg ==
    /\ pc = "ready"
    /\ engine = NoEngine
    /\ call \in {[op |-> "get_overall_risk_score", category_scores |-> cs] :
                    cs \in ScoreMaps}
    /\ ret = NoRet

GetOverallRiskScore ==
    /\ pc = "ready"
    /\ call.op = "get_overall_risk_score"
    /\ ret' = [kind |-> "score",
               overall_score |-> get_overall_risk_score(call.category_scores)]
    /\ pc' = "done"
    /\ UNCHANGED <<engine, call>>

NextAgg == GetOverallRiskScore

SpecAgg == InitAgg /\ [][NextAgg]_vars

(***************************************************************************)
(* Direct calls of RuleEngine.analyze on a text                            *)
(***************************************************************************)
RulePhrases == {"plain", "nopressure", "noworries", "orelse", "busy", "answer"}
RulePatterns == {"urgent", "asap", "ultimatum", "secret"}

RuleLines ==
    [speaker : {""}, phrase : RulePhrases,
     hits : SeqsUpTo(RulePatterns, MaxRuleHits), delim : {1, 3}]

RuleTexts == SeqsUpTo(RuleLines, MaxRuleLines)

InitRules ==
    /\ pc = "ready"
    /\ engine = NoEngine
    /\ call \in {[op |-> "RuleEngine.analyze", text |-> t] : t \in RuleTexts}
    /\ ret = NoRet

RuleAnalyze ==
    /\ pc = "ready"
    /\ call.op = "RuleEngine.analyze"
    /\ ret' = RuleEngine_analyze(call.text)
    /\ pc' = "done"
    /\ UNCHANGED <<engine, call>>

NextRules == RuleAnalyze

SpecRules == InitRules /\ [][NextRules]_vars

(***************************************************************************)
(* Claims about the aggregator (checked under SpecAgg)                     *)
(***************************************************************************)
AggDone == pc = "done" /\ call.op = "get_overall_risk_score"

\* the piecewise function of the specification, written from its text:
\* avg is the mean as an overall score, the result is capped at 1
PiecewiseOverall(cs) ==
    LET n == Cardinality(DOMAIN cs)
    IN IF n = 0 THEN 0
       ELSE LET mx == MaxScore(cs) * OverallPerScore
                avg == (SumScores(cs) * OverallPerScore) \div n
            IN CASE mx >= OverallFrac(8, 10) -> mx
                 [] mx < OverallFrac(8, 10) /\ n >= 3 ->
                      Min((mx \div 20) * 11 + (avg \div 20) * 7
                          + Min((n - 2) * OverallFrac(12, 100), OverallFrac(25, 100)),
                          OverallOne)
                 [] mx < OverallFrac(8, 10) /\ n = 2 ->
                      Min((mx \div 20) * 13 + (avg \div 4) + OverallFrac(10, 100),
                          OverallOne)
                 [] mx < OverallFrac(8, 10) /\ n = 1 -> mx

\* C9: get_overall_risk_score returns 0 for the empty map, the maximum when
\* it is >= 0.8, and otherwise min(0.55*max + 0.35*avg + min((n-2)*0.12, 0.25), 1)
\* for n >= 3, min(0.65*max + 0.25*avg + 0.10, 1) for n = 2, max for n = 1.
C9_Piecewise ==
    AggDone => ret.overall_score = PiecewiseOverall(call.category_scores)

\* five categories below 0.8: the boost (5-2)*0.12 is cut to 0.25
C9_Witness ==
    /\ AggDone
    /\ Cardinality(DOMAIN call.category_scores) = 5
    /\ MaxScore(call.category_scores) = Twentieths(12)
    /\ ret.overall_score > ToOverall(MaxScore(call.category_scores), 1, 1)
    /\ ret.overall_score < OverallOne

\* C10: when two or more categories fire together with moderate scores
\* (each >= 0.3, maximum < 0.8) the overall score is strictly higher than the
\* maximum category score, and a maximum >= 0.8 is never diluted below itself.
C10_ModerateRaise ==
    AggDone =>
        LET cs == call.category_scores
        IN /\ (/\ Cardinality(DOMAIN cs) >= 2
               /\ \A c \in DOMAIN cs : cs[c] >= Times(ScoreOne, 3, 10)
               /\ MaxScore(cs) < Times(ScoreOne, 8, 10))
              => ret.overall_score > ToOverall(MaxScore(cs), 1, 1)
           /\ (DOMAIN cs # {} /\ MaxScore(cs) >= Times(ScoreOne, 8, 10))
              => ret.overall_score >= ToOverall(MaxScore(cs), 1, 1)

(***************************************************************************)
(* Claims about the rule engine (checked under SpecRules)                  *)
(***************************************************************************)
RulesDone == pc = "done" /\ call.op = "RuleEngine.analyze"

\* the text holds a hit of a pattern of category c
HasHitOf(lines, c) ==
    \E i \in 1..Len(lines) : \E k \in 1..Len(lines[i].hits) :
        Registry[lines[i].hits[k]].category = c

\* the text holds an ultimatum token ("or else", "we're done", "must", ...),
\* as a phrase of its own or inside a matched text
HasUltimatumToken(lines) ==
    \E i \in 1..Len(lines) :
        \/ lines[i].phrase = "orelse"
        \/ \E k \in 1..Len(lines[i].hits) : "strong" \in Registry[lines[i].hits[k]].feat

\* C4: a text that contains a "no pressure"-style disclaimer and an ultimatum
\* token alongside at least one pressure pattern hit keeps its pressure
\* category: the match list is non-empty and the score is above 0.
C4_OverrideWins ==
    (/\ RulesDone
     /\ TextHas(call.text, "suppress")
     /\ HasUltimatumToken(call.text)
     /\ HasHitOf(call.text, "pressure"))
    => /\ "pressure" \in DOMAIN ret.matches
       /\ ret.matches["pressure"] # <<>>
       /\ ret.category_scores["pressure"] > 0

(***************************************************************************)
(* Claims about DetectionEngine.analyze (checked under SpecEngine)         *)
(***************************************************************************)
EngineDone == pc = "done" /\ call.op = "analyze"

\* the answer of the friendly-teasing detector for the analysed text
TeasingOf(lines) ==
    _check_friendly_teasing_context(lines, RuleEngine_analyze(lines).matches)

\* the results analyze would return had the friendly-teasing detector
\* answered false
WithoutTeasing ==
    AnalyzeWith(engine, call.text, call.classifier, FALSE,
                _check_professional_context(call.text))

\* the sentences and phrases of an explanation
WordingOf(explanation) ==
    UNION {{explanation[j].text[k] : k \in 1..Len(explanation[j].text)} :
              j \in 1..Len(explanation)}

\* the categories an explanation speaks about
MentionedIn(explanation) ==
    UNION {{explanation[j].cats[k] : k \in 1..Len(explanation[j].cats)} :
              j \in 1..Len(explanation)}

\* C1: evidence gate.  If the match list of every category of the result is
\* empty, the risk level is GREEN and the overall score is exactly 0, however
\* high an ML-only category score is.
C1_EvidenceGate ==
    (EngineDone /\ ~HasAnyMatches(ret.matches))
    => (ret.risk_level = GREEN /\ ret.overall_score = 0)

\* no match at all, an ML-only category score of 0.3 or more, forced GREEN
C1_Witness ==
    /\ EngineDone
    /\ ~HasAnyMatches(ret.matches)
    /\ \E c \in DOMAIN ret.category_scores :
          ret.category_scores[c] >= Times(ScoreOne, 3, 10)
    /\ ret.risk_level = GREEN
    /\ ret.overall_score = 0

\* C2: when the friendly-teasing detector returns true, analyze changes only
\* the bullying score: every other category has the final score it would have
\* had if the detector had returned false.
C2_OnlyBullyingReduced ==
    (EngineDone /\ TeasingOf(call.text))
    => \A base \in WithoutTeasing :
          /\ DOMAIN base.category_scores = DOMAIN ret.category_scores
          /\ \A c \in DOMAIN ret.category_scores \ {"bullying"} :
                ret.category_scores[c] = base.category_scores[c]

\* a hard blocker as the claim lists them, read off the text and the matches
C3_HardBlocker ==
    \/ \E c \in {"secrecy", "manipulation"} :
          AnyDesc(GetMatches(ret.matches, c),
                  {"coercive control", "secrecy", "isolation", "proof", "delete",
                   "screenshot"})
    \/ \E i \in 1..Len(call.text) : call.text[i].phrase = "orelse"
    \/ \E i \in 1..Len(call.text) :
          \/ call.text[i].phrase = "stfu"
          \/ \E k \in 1..Len(call.text[i].hits) : call.text[i].hits[k] = "severe"
    \/ /\ Len(GetMatches(ret.matches, "bullying")) >= 2
       /\ ~TextHas(call.text, "repair")
       /\ ~TextHas(call.text, "repair_hb")

\* joking markers from two speakers and a repair marker near the end
C3_Banter ==
    /\ _check_mutuality(_extract_message_turns(call.text))
    /\ _check_repair_markers(_extract_message_turns(call.text))

C5_ThreatGating ==
    (EngineDone /\ WordingOf(ret.explanation) \cap ThreatWording # {})
    => _has_threat_patterns(ret.matches, call.text)

\* C6: whenever analyze returns GREEN, the explanation is exactly the fixed
\* neutral statement: never empty, never a narrative, an "Observed behaviors"
\* list or a severity footer, also with ML-only scores of 0.3 or more.
C6_GreenNeutral ==
    (EngineDone /\ ret.risk_level = GREEN) => ret.explanation = NeutralStatement

\* C7: no fabricated evidence.  In a YELLOW or RED result a category with a
\* positive score and an empty match list gets no narrative sentence, category
\* mention or behaviour phrase, even when it has the highest score.
C7_NoFabricatedEvidence ==
    (EngineDone /\ ret.risk_level \in {YELLOW, RED})
    => \A c \in MentionedIn(ret.explanation) :
          (c \in DOMAIN ret.category_scores /\ ret.category_scores[c] > 0)
          => Len(GetMatches(ret.matches, c)) > 0

UnreducedBullying == GetScore(RuleEngine_analyze(call.text).category_scores, "bullying")

\* C11: the banter reduction does not compound.  In rules-only mode, when the
\* friendly-teasing detector returns true, the final bullying score is the
\* un-reduced bullying rule score multiplied by one factor in [0.3, 0.4].
C11_BanterOnce ==
    (/\ EngineDone
     /\ ~engine.ml_available
     /\ TeasingOf(call.text)
     /\ "bullying" \in DOMAIN ret.category_scores)
    => /\ 10 * ret.category_scores["bullying"] >= 3 * UnreducedBullying
       /\ 10 * ret.category_scores["bullying"] <= 4 * UnreducedBullying

\* the results analyze would return had both context detectors answered false
WithoutContext == AnalyzeWith(engine, call.text, call.classifier, FALSE, FALSE)

\* a secrecy or manipulation match whose pattern description carries a
\* coercive-control marker (engine.py:409-411)
CoerciveEvidence(matches) ==
    \E c \in {"secrecy", "manipulation"} :
        AnyDesc(GetMatches(matches, c),
                {"coercive control", "secrecy", "isolation", "proof", "delete",
                 "screenshot"})

\* C12: context down-weighting never applies to coercive-control evidence.  If
\* a secrecy or manipulation match carries a coercive-control marker, neither
\* the friendly-teasing path nor the professional-context path reduces the
\* secrecy or manipulation score; and no down-weighter turns a positive
\* category score into 0.
C12_CoerciveNotDownweighted ==
    EngineDone
    => \A base \in WithoutContext :
          /\ CoerciveEvidence(ret.matches)
                => \A c \in {"secrecy", "manipulation"} \cap DOMAIN ret.category_scores :
                      ret.category_scores[c] = base.category_scores[c]
          /\ \A c \in DOMAIN ret.category_scores :
                base.category_scores[c] > 0 => ret.category_scores[c] > 0

\* the result of an engine constructed with use_ml=False for the same text
RulesOnly ==
    DetectionEngine_analyze(DetectionEngine_init(FALSE, FALSE), call.text, NoClassifier)

\* classify_batch raised, or returned only empty maps
MLFailed ==
    \/ call.classifier.raises
    \/ DOMAIN call.classifier.first = {} /\ DOMAIN call.classifier.rest = {}

\* the fields of a result the user is shown
SameVerdict(a, b) ==
    /\ a.risk_level = b.risk_level
    /\ a.overall_score = b.overall_score
    /\ a.category_scores = b.category_scores
    /\ a.matches = b.matches
    /\ a.explanation = b.explanation

\* C13: ML failure degrades to rules-only.  If classify_batch raises or returns
\* only empty maps, analyze returns a result (it does not raise) whose risk
\* level, overall score, category scores, matches and explanation are those of
\* an engine constructed with use_ml=False analysing the same text.
C13_MLFailureRulesOnly ==
    (EngineDone /\ engine.ml_available /\ MLFailed)
    => /\ ret.kind = "DetectionResult"
       /\ \A r \in RulesOnly : SameVerdict(ret, r)

\* the classifier raised on a text with matches that is not GREEN
C13_Witness ==
    /\ EngineDone
    /\ engine.ml_available
    /\ call.classifier.raises
    /\ HasAnyMatches(ret.matches)
    /\ ret.risk_level # GREEN
    /\ ret.explanation # NeutralStatement

\* GREEN < YELLOW < RED
RiskRank(risk_level) ==
    IF risk_level = GREEN THEN 0 ELSE IF risk_level = YELLOW THEN 1 ELSE 2

\* the ML stage of the call returned a non-empty score map
MLScored ==
    DOMAIN MLScores(engine, call.classifier, segment_sentences(call.text)) # {}

\* C14: ML is a strictly additive signal.  For the same text and rule matches,
\* a non-empty ML score map never makes a category's final score, the overall
\* score or the risk level lower than the rules-only analysis of the text.
C14_MLAdditive ==
    (EngineDone /\ MLScored)
    => \A r \in RulesOnly :
          /\ \A c \in DOMAIN r.category_scores :
                GetScore(ret.category_scores, c) >= r.category_scores[c]
          /\ ret.overall_score >= r.overall_score
          /\ RiskRank(ret.risk_level) >= RiskRank(r.risk_level)

(***************************************************************************)
(* Loading the rules configuration: RuleEngine(rules_config_path) followed *)
(* by detect.  A regular expression of the configuration is given by its   *)
(* name; "broken" is one re.compile rejects.  The text handed to detect is *)
(* the set of the expressions that find a match in it.                     *)
(***************************************************************************)
MaxPatterns == 2

ConfigRegexes == {"fine", "other", "broken"}

\* re.compile(pattern) returns (it raises re.error otherwise)
Compiles(regex) == regex # "broken"

\* the pattern definitions a configuration file can hold
PatternDefs ==
    {[pattern |-> r, category |-> c] : r \in ConfigRegexes, c \in {"bullying", "secrecy"}}

\* RuleEngine._load_rules: the registry filled from the file; the pattern
\* strings are stored as they are
_load_rules(exists, rules) ==
    IF ~exists THEN [kind |-> "raised", error |-> "FileNotFoundError"]
    ELSE [kind |-> "RuleEngine",
          registry |-> [n \in 1..Len(rules) |->
                           [pattern |-> rules[n].pattern, confidence |-> Twentieths(10),
                            category |-> rules[n].category]]]

\* RuleEngine.__init__
RuleEngine_init(exists, rules) == _load_rules(exists, rules)

\* the matches found so far, extended by those of the later patterns unless
\* one of them raised
Extend(hits, later) ==
    IF later.kind = "raised" THEN later
    ELSE [kind |-> "matches", found |-> hits \o later.found]

RECURSIVE CompileAndMatch(_, _, _)
\* the loop of detect over the registry: each pattern is compiled when the
\* loop reaches it, then matched
CompileAndMatch(registry, text, n) ==
    IF n > Len(registry) THEN [kind |-> "matches", found |-> <<>>]
    ELSE IF ~Compiles(registry[n].pattern) THEN [kind |-> "raised", error |-> "re.error"]
    ELSE Extend(IF registry[n].pattern \in text THEN <<registry[n]>> ELSE <<>>,
                CompileAndMatch(registry, text, n + 1))

\* matches_by_category of the loaded registry
GroupMatches(result) ==
    IF result.kind = "raised" THEN result
    ELSE [kind |-> "matches",
          matches_by_category |->
              [c \in {result.found[j].category : j \in 1..Len(result.found)} |->
                  SelectSeq(result.found, LAMBDA m : m.category = c)]]

\* RuleEngine.detect on a loaded registry
LoadedDetect(registry, text) == GroupMatches(CompileAndMatch(registry, text, 1))

InitLoad ==
    /\ pc = "ready"
    /\ engine = NoEngine
    /\ call \in {[op |-> "RuleEngine", exists |-> e, rules |-> r, text |-> t] :
                    e \in BOOLEAN, r \in SeqsUpTo(PatternDefs, MaxPatterns),
                    t \in SUBSET {"fine", "other"}}
    /\ ret = NoRet

\* RuleEngine(rules_config_path)
Construct ==
    /\ pc = "ready"
    /\ call.op = "RuleEngine"
    /\ IF RuleEngine_init(call.exists, call.rules).kind = "raised"
       THEN /\ ret' = RuleEngine_init(call.exists, call.rules)
            /\ pc' = "done"
            /\ UNCHANGED engine
       ELSE /\ engine' = RuleEngine_init(call.exists, call.rules)
            /\ pc' = "constructed"
            /\ UNCHANGED ret
    /\ UNCHANGED call

\* rule_engine.detect(text) on the constructed engine
Detect ==
    /\ pc = "constructed"
    /\ call.op = "RuleEngine"
    /\ ret' = LoadedDetect(engine.registry, call.text)
    /\ pc' = "done"
    /\ UNCHANGED <<engine, call>>

NextLoad == Construct \/ Detect

SpecLoad == InitLoad /\ [][NextLoad]_vars

\* the configuration holds a regular expression that does not compile
HasMalformed(rules) == \E n \in 1..Len(rules) : ~Compiles(rules[n].pattern)

\* C15: a malformed regex in the rules configuration, like a missing rules
\* file, makes the construction of RuleEngine fail, so that no later call of
\* detect raises because of a pattern.
C15_LoadTimeFatal ==
    (call.op = "RuleEngine" /\ pc # "ready")
    => /\ (~call.exists \/ HasMalformed(call.rules))
             => (engine = NoEngine /\ pc = "done" /\ ret.kind = "raised")
       /\ (pc = "done" /\ ret.kind = "raised") => ret.error = "FileNotFoundError"

\* C16: for every RED result of analyze the advice starts with the message
\* synthesized from the dominant categories (score >= 0.6) and the matches of
\* the result, followed by the fixed RED message; it is never just the fixed
\* message.
C16_RedAdviceSynthesized ==
    (EngineDone /\ ret.risk_level = RED)
    => /\ ret.advice # ADVICE_MESSAGES_RED
       /\ ret.advice = get_help_advice(ret.risk_level, ret.overall_score, TRUE,
                                       ret.category_scores, ret.matches)

(***************************************************************************)
(* slang_normalizer.py: SlangNormalizer.  A text is a sequence of          *)
(* characters, each a string of length one; "ZW" stands for the zero-width *)
(* space U+200B, "JOY" for a joking emoji and "EYEROLL" for an annoyed one. *)
(***************************************************************************)
MaxWords == 2

UpperLetters ==
    <<"A", "B", "C", "D", "E", "F", "G", "H", "I", "J", "K", "L", "M",
      "N", "O", "P", "Q", "R", "S", "T", "U", "V", "W", "X", "Y", "Z">>

LowerLetters ==
    <<"a", "b", "c", "d", "e", "f", "g", "h", "i", "j", "k", "l", "m",
      "n", "o", "p", "q", "r", "s", "t", "u", "v", "w", "x", "y", "z">>

IsUpper(ch) == \E k \in 1..Len(UpperLetters) : UpperLetters[k] = ch

\* str.casefold on one character
Lower(ch) ==
    IF IsUpper(ch)
    THEN LowerLetters[CHOOSE k \in 1..Len(UpperLetters) : UpperLetters[k] = ch]
    ELSE ch

\* str.casefold
casefold(text) == [i \in 1..Len(text) |-> Lower(text[i])]

\* [a-zA-Z]
IsLetter(ch) == \E k \in 1..Len(LowerLetters) : LowerLetters[k] = Lower(ch)

\* \w
IsWordChar(ch) == IsLetter(ch) \/ ch \in {"0", "1", "2", "3", "4", "5", "6", "7", "8", "9", "_"}

\* \s
IsSpace(ch) == ch = " "

\* [*_\-\.]
IsObfuscationChar(ch) == ch \in {"*", "_", "-", "."}

\* a word character at position i of the text
WordAt(text, i) == i >= 1 /\ i <= Len(text) /\ IsWordChar(text[i])

\* \b before position i
Boundary(text, i) == WordAt(text, i - 1) # WordAt(text, i)

\* the literal word stands at position i, ignoring case
WordMatchesAt(text, word, i) ==
    /\ i + Len(word) - 1 <= Len(text)
    /\ \A k \in 1..Len(word) : Lower(text[i + k - 1]) = word[k]

\* max of a non-empty set of positions
LastOf(S) == CHOOSE x \in S : \A y \in S : y <= x

\* SlangNormalizer._remove_zero_width_chars: characters of category Cf go
_remove_zero_width_chars(text) == SelectSeq(text, LAMBDA ch : ch # "ZW")

RECURSIVE RunEnd(_, _)
\* first position from j on that holds no obfuscation character
RunEnd(text, j) ==
    IF j > Len(text) \/ ~IsObfuscationChar(text[j]) THEN j ELSE RunEnd(text, j + 1)

RECURSIVE ObfuscationFrom(_, _)
\* one step of re.sub(r"(\w)[*_\-\.]+(\w)", r"\1\2") at position i; ends are
\* the positions where a match starting at i can end, the longest one wins
ObfuscationStep(text, i, ends) ==
    IF IsWordChar(text[i]) /\ ends # {}
    THEN <<text[i], text[LastOf(ends)]>> \o ObfuscationFrom(text, LastOf(ends) + 1)
    ELSE <<text[i]>> \o ObfuscationFrom(text, i + 1)

\* the positions after a run of obfuscation characters that starts at i + 1
\* and ends before position j at the latest, holding a word character
ObfuscationEnds(text, i, j) ==
    {e \in (i + 2)..(IF j <= Len(text) THEN j ELSE Len(text)) : IsWordChar(text[e])}

\* the scan of re.sub from position i: matches do not overlap
ObfuscationFrom(text, i) ==
    IF i > Len(text) THEN <<>>
    ELSE ObfuscationStep(text, i, ObfuscationEnds(text, i, RunEnd(text, i + 1)))

\* SlangNormalizer._normalize_obfuscation
_normalize_obfuscation(text) == ObfuscationFrom(text, 1)

RECURSIVE SeparatorEnd(_, _)
\* first position from j on that holds neither white space nor "." nor "-"
SeparatorEnd(text, j) ==
    IF j > Len(text) \/ ~(IsSpace(text[j]) \/ text[j] \in {".", "-"}) THEN j
    ELSE SeparatorEnd(text, j + 1)

\* the separator is matched by the middle of the n-th spacing variant:
\* \s+\.?\s* , \s*\.\s* , \s*-\s*
IsSeparator(sep, n) ==
    LET Count(ch) == Cardinality({k \in 1..Len(sep) : sep[k] = ch})
    IN IF n = 1 THEN Len(sep) > 0 /\ IsSpace(sep[1]) /\ Count(".") <= 1 /\ Count("-") = 0
       ELSE IF n = 2 THEN Count(".") = 1 /\ Count("-") = 0
       ELSE Count("-") = 1 /\ Count(".") = 0

\* the n-th spacing variant matches from position i to position j
SpacingMatch(text, n, i, j) ==
    /\ Lower(text[i]) = "r"
    /\ Boundary(text, i)
    /\ j <= Len(text)
    /\ Lower(text[j]) = "n"
    /\ Boundary(text, j + 1)
    /\ IsSeparator(SubSeq(text, i + 1, j - 1), n)

RECURSIVE SpacingFrom(_, _, _)
SpacingStep(text, n, i, j) ==
    IF SpacingMatch(text, n, i, j)
    THEN <<"r", "n">> \o SpacingFrom(text, n, j + 1)
    ELSE <<text[i]>> \o SpacingFrom(text, n, i + 1)

\* re.sub of the n-th spacing variant from position i
SpacingFrom(text, n, i) ==
    IF i > Len(text) THEN <<>> ELSE SpacingStep(text, n, i, SeparatorEnd(text, i + 1))

\* SlangNormalizer._normalize_spacing_variants: "r n", "r.n", "r-n" -> "rn"
_normalize_spacing_variants(text) ==
    SpacingFrom(SpacingFrom(SpacingFrom(text, 1, 1), 2, 1), 3, 1)

RECURSIVE RepeatEnd(_, _, _)
\* first position from j on that does not repeat the letter ch (any case)
RepeatEnd(text, ch, j) ==
    IF j > Len(text) \/ Lower(text[j]) # Lower(ch) THEN j ELSE RepeatEnd(text, ch, j + 1)

RECURSIVE RepeatsFrom(_, _)
\* one step of re.sub(r"([a-zA-Z])\1{2,}", ...) at position i, the run of the
\* letter ending before position j: three or more become two
RepeatsStep(text, i, j) ==
    IF IsLetter(text[i]) /\ j - i >= 3
    THEN <<text[i], text[i]>> \o RepeatsFrom(text, j)
    ELSE <<text[i]>> \o RepeatsFrom(text, i + 1)

RepeatsFrom(text, i) ==
    IF i > Len(text) THEN <<>> ELSE RepeatsStep(text, i, RepeatEnd(text, text[i], i + 1))

\* SlangNormalizer._normalize_letter_repeats
_normalize_letter_repeats(text) == RepeatsFrom(text, 1)

RECURSIVE SpaceEnd(_, _)
\* first position from j on that holds no white space
SpaceEnd(text, j) ==
    IF j > Len(text) \/ ~IsSpace(text[j]) THEN j ELSE SpaceEnd(text, j + 1)

\* \b<word>\s+now\b matches from position i, the white space ending before s
TypoNowMatch(text, word, i, s) ==
    /\ Boundary(text, i)
    /\ WordMatchesAt(text, word, i)
    /\ s > i + Len(word)
    /\ WordMatchesAt(text, <<"n", "o", "w">>, s)
    /\ Boundary(text, s + 3)

RECURSIVE TypoNowFrom(_, _, _)
TypoNowStep(text, word, i, s) ==
    IF TypoNowMatch(text, word, i, s)
    THEN <<"r", "i", "g", "h", "t", " ", "n", "o", "w">> \o TypoNowFrom(text, word, s + 3)
    ELSE <<text[i]>> \o TypoNowFrom(text, word, i + 1)

\* re.sub(r"\b<word>\s+now\b", "right now") from position i
TypoNowFrom(text, word, i) ==
    IF i > Len(text) THEN <<>>
    ELSE TypoNowStep(text, word, i, SpaceEnd(text, i + Len(word)))

RECURSIVE NowwFrom(_, _)
\* \bnoww+\b at position i, the run of w ending before position e
NowwStep(text, i, e) ==
    IF /\ Boundary(text, i)
       /\ WordMatchesAt(text, <<"n", "o", "w">>, i)
       /\ e > i + 3
       /\ Boundary(text, e)
    THEN <<"n", "o", "w">> \o NowwFrom(text, e)
    ELSE <<text[i]>> \o NowwFrom(text, i + 1)

\* re.sub(r"\bnoww+\b", "now") from position i
NowwFrom(text, i) ==
    IF i > Len(text) THEN <<>> ELSE NowwStep(text, i, RepeatEnd(text, "w", i + 3))

\* SlangNormalizer._normalize_typos: "rite now", "rightt now", "noww"
_normalize_typos(text) ==
    NowwFrom(TypoNowFrom(TypoNowFrom(text, <<"r", "i", "t", "e">>, 1),
                         <<"r", "i", "g", "h", "t", "t">>, 1), 1)

\* self.sorted_abbrevs: the abbreviations, longest first
sorted_abbrevs ==
    <<[abbrev |-> <<"l", "m", "f", "a", "o">>,
       replacement |-> <<"l", "a", "u", "g", "h", "i", "n", "g">>],
      [abbrev |-> <<"t", "m", "r", "w">>,
       replacement |-> <<"t", "o", "m", "o", "r", "r", "o", "w">>],
      [abbrev |-> <<"t", "t", "y", "l">>,
       replacement |-> <<"t", "a", "l", "k", " ", "t", "o", " ", "y", "o", "u", " ", "l", "a", "t", "e", "r">>],
      [abbrev |-> <<"i", "l", "y", "2">>,
       replacement |-> <<"I", " ", "l", "o", "v", "e", " ", "y", "o", "u", " ", "t", "o", "o">>],
      [abbrev |-> <<"s", "t", "f", "u">>,
       replacement |-> <<"s", "h", "u", "t", " ", "u", "p">>],
      [abbrev |-> <<"l", "m", "a", "o">>,
       replacement |-> <<"l", "a", "u", "g", "h", "i", "n", "g">>],
      [abbrev |-> <<"r", "o", "f", "l">>,
       replacement |-> <<"l", "a", "u", "g", "h", "i", "n", "g">>],
      [abbrev |-> <<"h", "a", "h", "a">>,
       replacement |-> <<"h", "a", "h", "a">>],
      [abbrev |-> <<"h", "e", "h", "e">>,
       replacement |-> <<"h", "e", "h", "e">>],
      [abbrev |-> <<"i", "d", "k">>,
       replacement |-> <<"I", " ", "d", "o", "n", "'", "t", " ", "k", "n", "o", "w">>],
      [abbrev |-> <<"i", "d", "c">>,
       replacement |-> <<"I", " ", "d", "o", "n", "'", "t", " ", "c", "a", "r", "e">>],
      [abbrev |-> <<"b", "r", "b">>,
       replacement |-> <<"b", "e", " ", "r", "i", "g", "h", "t", " ", "b", "a", "c", "k">>],
      [abbrev |-> <<"b", "t", "w">>,
       replacement |-> <<"b", "y", " ", "t", "h", "e", " ", "w", "a", "y">>],
      [abbrev |-> <<"o", "m", "g">>,
       replacement |-> <<"o", "h", " ", "m", "y", " ", "g", "o", "d">>],
      [abbrev |-> <<"n", "g", "l">>,
       replacement |-> <<"n", "o", "t", " ", "g", "o", "i", "n", "g", " ", "t", "o", " ", "l", "i", "e">>],
      [abbrev |-> <<"w", "y", "d">>,
       replacement |-> <<"w", "h", "a", "t", " ", "a", "r", "e", " ", "y", "o", "u", " ", "d", "o", "i", "n", "g">>],
      [abbrev |-> <<"s", "m", "h">>,
       replacement |-> <<"s", "h", "a", "k", "i", "n", "g", " ", "m", "y", " ", "h", "e", "a", "d">>],
      [abbrev |-> <<"t", "b", "h">>,
       replacement |-> <<"t", "o", " ", "b", "e", " ", "h", "o", "n", "e", "s", "t">>],
      [abbrev |-> <<"i", "m", "o">>,
       replacement |-> <<"i", "n", " ", "m", "y", " ", "o", "p", "i", "n", "i", "o", "n">>],
      [abbrev |-> <<"f", "y", "i">>,
       replacement |-> <<"f", "o", "r", " ", "y", "o", "u", "r", " ", "i", "n", "f", "o", "r", "m", "a", "t", "i", "o", "n">>],
      [abbrev |-> <<"t", "h", "x">>,
       replacement |-> <<"t", "h", "a", "n", "k", " ", "y", "o", "u">>],
      [abbrev |-> <<"t", "m", "r">>,
       replacement |-> <<"t", "o", "m", "o", "r", "r", "o", "w">>],
      [abbrev |-> <<"i", "l", "y">>,
       replacement |-> <<"I", " ", "l", "o", "v", "e", " ", "y", "o", "u">>],
      [abbrev |-> <<"h", "b", "u">>,
       replacement |-> <<"h", "o", "w", " ", "a", "b", "o", "u", "t", " ", "y", "o", "u">>],
      [abbrev |-> <<"w", "b", "u">>,
       replacement |-> <<"w", "h", "a", "t", " ", "a", "b", "o", "u", "t", " ", "y", "o", "u">>],
      [abbrev |-> <<"n", "v", "m">>,
       replacement |-> <<"n", "e", "v", "e", "r", " ", "m", "i", "n", "d">>],
      [abbrev |-> <<"i", "k", "r">>,
       replacement |-> <<"I", " ", "k", "n", "o", "w", " ", "r", "i", "g", "h", "t">>],
      [abbrev |-> <<"f", "m", "l">>,
       replacement |-> <<"f", "u", "c", "k", " ", "m", "y", " ", "l", "i", "f", "e">>],
      [abbrev |-> <<"w", "t", "f">>,
       replacement |-> <<"w", "h", "a", "t", " ", "t", "h", "e", " ", "f", "u", "c", "k">>],
      [abbrev |-> <<"o", "m", "w">>,
       replacement |-> <<"o", "n", " ", "m", "y", " ", "w", "a", "y">>],
      [abbrev |-> <<"t", "m", "i">>,
       replacement |-> <<"t", "o", "o", " ", "m", "u", "c", "h", " ", "i", "n", "f", "o", "r", "m", "a", "t", "i", "o", "n">>],
      [abbrev |-> <<"l", "o", "l">>,
       replacement |-> <<"l", "a", "u", "g", "h", "i", "n", "g">>],
      [abbrev |-> <<"u", "r">>,
       replacement |-> <<"y", "o", "u", "r">>],
      [abbrev |-> <<"j", "k">>,
       replacement |-> <<"j", "u", "s", "t", " ", "k", "i", "d", "d", "i", "n", "g">>],
      [abbrev |-> <<"f", "r">>,
       replacement |-> <<"f", "o", "r", " ", "r", "e", "a", "l">>],
      [abbrev |-> <<"n", "p">>,
       replacement |-> <<"n", "o", " ", "p", "r", "o", "b", "l", "e", "m">>],
      [abbrev |-> <<"t", "y">>,
       replacement |-> <<"t", "h", "a", "n", "k", " ", "y", "o", "u">>],
      [abbrev |-> <<"y", "w">>,
       replacement |-> <<"y", "o", "u", "'", "r", "e", " ", "w", "e", "l", "c", "o", "m", "e">>],
      [abbrev |-> <<"g", "g">>,
       replacement |-> <<"g", "o", "o", "d", " ", "g", "a", "m", "e">>],
      [abbrev |-> <<"g", "l">>,
       replacement |-> <<"g", "o", "o", "d", " ", "l", "u", "c", "k">>],
      [abbrev |-> <<"h", "f">>,
       replacement |-> <<"h", "a", "v", "e", " ", "f", "u", "n">>],
      [abbrev |-> <<"a", "f">>,
       replacement |-> <<"a", "s", " ", "f", "u", "c", "k">>],
      [abbrev |-> <<"r", "n">>,
       replacement |-> <<"r", "i", "g", "h", "t", " ", "n", "o", "w">>],
      [abbrev |-> <<"u">>,
       replacement |-> <<"y", "o", "u">>],
      [abbrev |-> <<"r">>,
       replacement |-> <<"a", "r", "e">>],
      [abbrev |-> <<"y">>,
       replacement |-> <<"w", "h", "y">>],
      [abbrev |-> <<"c">>,
       replacement |-> <<"s", "e", "e">>],
      [abbrev |-> <<"b">>,
       replacement |-> <<"b", "e">>],
      [abbrev |-> <<"n">>,
       replacement |-> <<"a", "n", "d">>]>>

\* r"\b" + abbrev + r"\b" matches at position i, ignoring case
MatchesAt(text, abbrev, i) ==
    /\ WordMatchesAt(text, abbrev, i)
    /\ Boundary(text, i)
    /\ Boundary(text, i + Len(abbrev))

RECURSIVE ReplaceFrom(_, _, _)
\* the text from position i on with every match of the abbreviation replaced
ReplaceFrom(text, entry, i) ==
    IF i > Len(text) THEN <<>>
    ELSE IF MatchesAt(text, entry.abbrev, i)
    THEN entry.replacement \o ReplaceFrom(text, entry, i + Len(entry.abbrev))
    ELSE <<text[i]>> \o ReplaceFrom(text, entry, i + 1)

RECURSIVE ReplacedFrom(_, _, _)
\* the replacements made from position i on, last match first
ReplacedFrom(text, entry, i) ==
    IF i > Len(text) THEN <<>>
    ELSE IF MatchesAt(text, entry.abbrev, i)
    THEN ReplacedFrom(text, entry, i + Len(entry.abbrev))
         \o <<[original |-> SubSeq(text, i, i + Len(entry.abbrev) - 1),
               normalized |-> entry.replacement]>>
    ELSE ReplacedFrom(text, entry, i + 1)

\* one round of the abbreviation loop (slang_normalizer.py:237-251)
ApplyAbbreviation(state, entry) ==
    [normalized |-> ReplaceFrom(state.normalized, entry, 1),
     replacements |-> state.replacements \o ReplacedFrom(state.normalized, entry, 1)]

RECURSIVE Abbreviate(_, _)
\* the abbreviation loop from the n-th abbreviation on (no abbreviation
\* matches in an empty text)
Abbreviate(state, n) ==
    IF n > Len(sorted_abbrevs) \/ state.normalized = <<>> THEN state
    ELSE Abbreviate(ApplyAbbreviation(state, sorted_abbrevs[n]), n + 1)

\* emoji in normalized
HasChar(text, ch) == \E i \in 1..Len(text) : text[i] = ch

\* the NormalizedMessage built from the text after step 6 and the outcome of
\* the abbreviation loop
NormalizedMessage(raw_text, normalized, state) ==
    [kind |-> "NormalizedMessage",
     raw_text |-> raw_text,
     normalized_text |-> state.normalized,
     replacements |-> state.replacements,
     has_emoji |-> HasChar(normalized, "JOY") \/ HasChar(normalized, "EYEROLL"),
     tone_markers |-> [joking |-> HasChar(normalized, "JOY"),
                       annoyed |-> HasChar(normalized, "EYEROLL")]]

\* emoji detection and step 7 of normalize_message
NormalizeAbbreviations(raw_text, normalized) ==
    NormalizedMessage(raw_text, normalized,
                      Abbreviate([normalized |-> normalized, replacements |-> <<>>], 1))

\* steps 3 to 7 of normalize_message on the text without zero-width
\* characters; its case-folded copy normalized_lower is not used
NormalizeSteps(raw_text, normalized, normalized_lower) ==
    NormalizeAbbreviations(raw_text,
        _normalize_typos(
            _normalize_letter_repeats(
                _normalize_spacing_variants(
                    _normalize_obfuscation(normalized)))))

\* SlangNormalizer.normalize_message
normalize_message(text) ==
    NormalizeSteps(text, _remove_zero_width_chars(text),
                   casefold(_remove_zero_width_chars(text)))

(***************************************************************************)
(* Calls of normalize_message: on a text of slang and obfuscated words,    *)
(* then on the normalized text it returned                                 *)
(***************************************************************************)
NormWords ==
    {<<"s", "t", "f", "u">>,
     <<"S", "T", "F", "U">>,
     <<"s", "t", "f", "*", "u">>,
     <<"s", ".", "t", ".", "f", ".", "u">>,
     <<"s", "t", "*", "f", "*", "u">>,
     <<"s", "t", "ZW", "f", "u">>,
     <<"U">>,
     <<"U", "u", "u">>,
     <<"r">>,
     <<"n">>,
     <<"r", ".", "n">>,
     <<"r", "i", "t", "e">>,
     <<"n", "o", "w", "w", "w">>,
     <<"i", "d", "k">>,
     <<"l", "o", "l", "JOY">>,
     <<"B", "o", "b">>}

RECURSIVE JoinWords(_)
\* " ".join(words)
JoinWords(words) ==
    IF words = <<>> THEN <<>>
    ELSE IF Len(words) = 1 THEN words[1]
    ELSE words[1] \o <<" ">> \o JoinWords(Tail(words))

NormTexts == {JoinWords(words) : words \in SeqsUpTo(NormWords, MaxWords)}

InitNorm ==
    /\ pc = "ready"
    /\ engine = NoEngine
    /\ call \in {[op |-> "normalize_message", text |-> t] : t \in NormTexts}
    /\ ret = NoRet

\* normalize_message(text)
Normalize ==
    /\ pc = "ready"
    /\ call.op = "normalize_message"
    /\ ret' = normalize_message(call.text)
    /\ pc' = "done"
    /\ UNCHANGED <<engine, call>>

\* normalize_message(normalize_message(text).normalized_text)
NormalizeAgain ==
    /\ pc = "done"
    /\ call.op = "normalize_message"
    /\ call' = [call EXCEPT !.text = ret.normalized_text]
    /\ ret' = normalize_message(ret.normalized_text)
    /\ pc' = "again"
    /\ UNCHANGED engine

NextNorm == Normalize \/ NormalizeAgain

SpecNorm == InitNorm /\ [][NextNorm]_vars

\* C17: normalization is idempotent.  For slang and obfuscated inputs, also
\* words masked with several obfuscation characters, normalizing the
\* normalized text returns it unchanged.
C17_NormalizeIdempotent ==
    (call.op = "normalize_message" /\ pc = "again") => ret.normalized_text = call.text

\* C18: stage 2 case-folds the text and every later stage works on the
\* case-folded text: the normalized text is the one the case-folded input
\* gives, no upper-case letter of the input is left in it.
C18_CaseFolded ==
    (call.op = "normalize_message" /\ pc = "done")
    => /\ ret.normalized_text = normalize_message(casefold(call.text)).normalized_text
       /\ \A i \in 1..Len(ret.normalized_text) :
             IsUpper(ret.normalized_text[i]) => ~HasChar(call.text, ret.normalized_text[i])

(***************************************************************************)
(* C19: a GREEN result and its pattern matches                             *)
(***************************************************************************)
\* sum(len(matches) for matches in result.matches.values())
RECURSIVE TotalOver(_, _)
TotalOver(matches, cats) ==
    IF cats = {} THEN 0
    ELSE LET c == CHOOSE d \in cats : TRUE
         IN Len(matches[c]) + TotalOver(matches, cats \ {c})

total_matches(matches) == TotalOver(matches, DOMAIN matches)

\* C19: whenever DetectionEngine.analyze classifies a text as GREEN, the
\* result carries no pattern matches: the number of matches summed over all
\* categories is 0.
C19_GreenNoMatches ==
    (EngineDone /\ ret.risk_level = GREEN) => total_matches(ret.matches) = 0

(***************************************************************************)
(* C20: a sequence of analyze calls on one DetectionEngine                 *)
(***************************************************************************)
\* largest number of earlier calls counted on an engine
MaxCalls == 2

\* the texts of the calls of a sequence: one line without speaker label and
\* at most one pattern hit
SeqTexts ==
    {MakeText("none", <<phrase>>, hits, 1) :
        phrase \in EnginePhrases,
        hits \in {<<>>} \cup {<<p>> : p \in EnginePatterns}}

\* the calls one engine can receive: without a classifier (the engine was
\* constructed without ML) classify_batch is never reached
SeqCalls(fresh, previous) ==
    {[op |-> "analyze", text |-> t, classifier |-> c, fresh |-> fresh,
      previous |-> previous] :
        t \in SeqTexts,
        c \in IF fresh.ml_available THEN Classifiers ELSE {NoClassifier}}

\* an engine whose ML failure handler switched ML off for later calls
EngineAfterAnalyze_mlfailure(eng, classifier) == [eng EXCEPT !.ml_available = eng.ml_available /\ ~classifier.raises]

\* the fields of the engine after analyze returned: analyze assigns to no
\* attribute of self (engine.py:92-261), the ML failure handler only logs
\* (engine.py:184-186), RuleEngine.detect iterates over a copy of the pattern
\* list (patterns.py:41-43) and the aggregator computes into fresh dicts
EngineAfterAnalyze(eng, classifier) == eng

\* the engine is constructed once; call.fresh is an engine constructed with
\* the same arguments and never called
InitSeq ==
    /\ pc = "ready"
    /\ engine \in {DetectionEngine_init(use_ml, embedding_available) :
                      use_ml \in BOOLEAN, embedding_available \in BOOLEAN}
    /\ call \in SeqCalls(engine, 0)
    /\ ret = NoRet

AnalyzeOn ==
    /\ pc = "ready"
    /\ call.op = "analyze"
    /\ ret' \in DetectionEngine_analyze(engine, call.text, call.classifier)
    /\ engine' = EngineAfterAnalyze(engine, call.classifier)
    /\ pc' = "done"
    /\ UNCHANGED call

\* the caller analyses another text with the same engine
NextCall ==
    /\ pc = "done"
    /\ call.previous < MaxCalls
    /\ call' \in SeqCalls(call.fresh, call.previous + 1)
    /\ ret' = NoRet
    /\ pc' = "ready"
    /\ UNCHANGED engine

NextSeq == AnalyzeOn \/ NextCall

SpecSeq == InitSeq /\ [][NextSeq]_vars

SeqDone == pc = "done" /\ call.op = "analyze" /\ "previous" \in DOMAIN call

MaxMatches == 7

\* confidences of the matches of such a list
MatchConfidences == {Twentieths(10), Twentieths(18)}

MatchLists ==
    {[j \in 1..Len(cs) |-> [pattern |-> "insult", position |-> j, confidence |-> cs[j]]] :
        cs \in SeqsUpTo(MatchConfidences, MaxMatches)}

InitScore ==
    /\ pc = "ready"
    /\ engine = NoEngine
    /\ call \in {[op |-> "get_category_score", matches |-> m] : m \in MatchLists}
    /\ ret = NoRet

GetCategoryScore ==
    /\ pc = "ready"
    /\ call.op = "get_category_score"
    /\ ret' = get_category_score(call.matches)
    /\ pc' = "done"
    /\ UNCHANGED <<engine, call>>

NextScore == GetCategoryScore

SpecScore == InitScore /\ [][NextScore]_vars

ScoreDone == pc = "done" /\ call.op = "get_category_score"

\* max(m.confidence for m in matches)
MaxConfidence(matches) ==
    CHOOSE x \in {matches[j].confidence : j \in 1..Len(matches)} :
        \A j \in 1..Len(matches) : matches[j].confidence <= x

\* C21: get_category_score returns 0 for no matches and otherwise
\* min(max confidence + count boost, 1.0), where the count boost is 0 for a
\* single match, 0.05 for exactly two matches, and between 0.1 and 0.2 for
\* three or more matches.
C21_CountBoost ==
    ScoreDone
    => LET n == Len(call.matches)
       IN IF n = 0 THEN ret = 0
          ELSE \E boost \in 0..Twentieths(4) :
                  /\ ret = Min(MaxConfidence(call.matches) + boost, ScoreOne)
                  /\ n = 1 => boost = 0
                  /\ n = 2 => boost = Twentieths(1)
                  /\ n >= 3 => boost >= Twentieths(2)

(***************************************************************************)
(* C22: empty input                                                        *)
(***************************************************************************)
\* the text without content: the empty string, or white space only, which
\* normalize_text strips to the empty string (text_processing.py:17-21); it
\* has no line, no sentence and no pattern hit
EmptyText == <<>>

\* C22: for empty or whitespace-only input text, DetectionEngine.analyze does
\* not raise and returns risk level GREEN, overall score 0 and zero matches in
\* every category.
C22_EmptyInput ==
    (EngineDone /\ call.text = EmptyText)
    => /\ ret.kind = "DetectionResult"
       /\ ret.risk_level = GREEN
       /\ ret.overall_score = 0
       /\ \A c \in RiskCategory : GetMatches(ret.matches, c) = <<>>

\* the empty text analysed by an engine whose classifier raises
C22_Witness ==
    /\ EngineDone
    /\ call.text = EmptyText
    /\ engine.ml_available
    /\ call.classifier.raises

(***************************************************************************)
(* C23: zero scores in a score map                                         *)
(***************************************************************************)
\* the score map without its zero-score entries
WithoutZeros(category_scores) ==
    [c \in {d \in DOMAIN category_scores : category_scores[d] # 0} |-> category_scores[c]]

\* C23: a category with score 0 is equivalent to an absent category.  For every
\* category score map, get_overall_risk_score, and therefore the risk level,
\* returns the same value whether or not zero-score entries are present.
C23_ZeroIsAbsent ==
    AggDone
    => /\ ret.overall_score
              = get_overall_risk_score(WithoutZeros(call.category_scores))
       /\ _determine_risk_level(ret.overall_score)
              = _determine_risk_level(get_overall_risk_score(WithoutZeros(call.category_scores)))

(***************************************************************************)
(* C24: global suppression of the pressure category                        *)
(***************************************************************************)
\* the text with every disclaimer phrase replaced by a phrase without features
WithoutDisclaimer(lines) ==
    [i \in 1..Len(lines) |->
        IF "suppress" \in Phrases[lines[i].phrase].feat
        THEN [lines[i] EXCEPT !.phrase = "plain"]
        ELSE lines[i]]

\* pattern and confidence of the matches of a list, in order
MatchedPatterns(matches) ==
    [j \in 1..Len(matches) |->
        [pattern |-> matches[j].pattern, confidence |-> matches[j].confidence]]

\* a pressure match of detect whose matched text holds a strong-override token
HasStrongPressureMatch(lines) ==
    \E j \in 1..Len(GetMatches(detect(lines), "pressure")) :
        "strong" \in Registry[GetMatches(detect(lines), "pressure")[j].pattern].feat

\* C24: global suppression.  If the analysed text contains a "no pressure"-style
\* disclaimer and no pressure match's text contains a strong-override token,
\* RuleEngine.analyze returns an empty pressure match list and a pressure score
\* of exactly 0, while the matches and scores of every other category are the
\* same as without the disclaimer.
C24_GlobalSuppression ==
    (/\ RulesDone
     /\ TextHas(call.text, "suppress")
     /\ ~HasStrongPressureMatch(call.text))
    => /\ GetMatches(ret.matches, "pressure") = <<>>
       /\ GetScore(ret.category_scores, "pressure") = 0
       /\ \A c \in RiskCategory \ {"pressure"} :
             /\ MatchedPatterns(GetMatches(ret.matches, c))
                   = MatchedPatterns(GetMatches(RuleEngine_analyze(WithoutDisclaimer(call.text)).matches, c))
             /\ GetScore(ret.category_scores, c)
                   = GetScore(RuleEngine_analyze(WithoutDisclaimer(call.text)).category_scores, c)

\* a disclaimer next to a pressure match that passed the context gate and a
\* secrecy match
C24_Witness ==
    /\ RulesDone
    /\ TextHas(call.text, "suppress")
    /\ ~HasStrongPressureMatch(call.text)
    /\ GetMatches(detect(call.text), "pressure") # <<>>
    /\ GetMatches(ret.matches, "secrecy") # <<>>
    /\ "pressure" \in DOMAIN ret.category_scores

(***************************************************************************)
(* Direct calls of ScoreAggregator.aggregate_category_scores on an         *)
(* aggregator constructed with given weights                               *)
(***************************************************************************)
\* constructor weights, in tenths: rules_weight and ml_weight are floats the
\* constructor takes as they are
MergeWeights == {0 - 5, 0, 4, 6, 10}

\* the categories of the two maps
MergeCategories == {"bullying", "pressure"}

\* rule scores and ML scores in [0, 1]
MergeScores == {0, Twentieths(10), ScoreOne}

MergeMaps == UNION {[S -> MergeScores] : S \in SUBSET MergeCategories}

InitMerge ==
    /\ pc = "ready"
    /\ engine \in {ScoreAggregator_init(rules_weight, ml_weight) :
                      rules_weight \in MergeWeights, ml_weight \in MergeWeights}
    /\ call \in {[op |-> "aggregate_category_scores", rules_scores |-> r, ml_scores |-> m] :
                    r \in MergeMaps, m \in MergeMaps}
    /\ ret = NoRet

\* the merged map and its overall score (engine.py:189-191, 214)
Overall(category_scores) ==
    [kind |-> "scores", category_scores |-> category_scores,
     overall_score |-> get_overall_risk_score(category_scores)]

AggregateCategoryScores ==
    /\ pc = "ready"
    /\ call.op = "aggregate_category_scores"
    /\ ret' = Overall(aggregate_category_scores(engine, call.rules_scores, call.ml_scores))
    /\ pc' = "done"
    /\ UNCHANGED <<engine, call>>

NextMerge == AggregateCategoryScores

SpecMerge == InitMerge /\ [][NextMerge]_vars

MergeDone == pc = "done" /\ call.op = "aggregate_category_scores"

\* C25: score range invariant.  For any constructor weights, any rule scores in
\* [0,1] and any ML scores in [0,1], every category score of the merged map
\* lies in [0,1], and the overall score lies in [0,1].
C25_ScoreRange ==
    MergeDone
    => /\ \A c \in DOMAIN ret.category_scores :
             0 <= ret.category_scores[c] /\ ret.category_scores[c] <= ScoreOne
       /\ 0 <= ret.overall_score
       /\ ret.overall_score <= OverallOne

(***************************************************************************)
(* Direct calls of get_sentence_context and of                             *)
(* RuleEngine._check_pressure_context on a text and a position in it       *)
(***************************************************************************)
\* largest number of lines of a text handed to get_sentence_context
MaxContextLines == 3
\* largest number of lines of a text handed to _check_pressure_context
MaxGateLines == 4

ContextPhrases == {"plain", "nopressure", "answer"}

\* delimiter runs between sentences: "." and "..."
ContextDelims == {1, 3}

ContextLines ==
    [speaker : {""}, phrase : ContextPhrases, hits : {<<>>, <<"rightnow">>},
     delim : ContextDelims]

\* the texts of at most n lines
ContextTexts(n) == SeqsUpTo(ContextLines, n) \ {<<>>}

\* first and last character of every line, and the start of every match
ContextPositions(lines) ==
    UNION {{NormStart(lines, i), NormStart(lines, i) + NormLineLen(lines[i]) - 1}
              \cup {HitPosition(lines, i, k) : k \in 1..Len(lines[i].hits)} :
           i \in 1..Len(lines)}

\* texts of at most n lines with one pressure pattern hit, at the end of line
\* hit_line
GateTexts(n) ==
    {[i \in 1..Len(phrases) |->
         [speaker |-> "", phrase |-> phrases[i],
          hits |-> IF i = hit_line THEN <<pattern>> ELSE <<>>,
          delim |-> delims[i]]] :
        phrases \in SeqsUpTo(ContextPhrases, n) \ {<<>>},
        delims \in [1..n -> ContextDelims],
        hit_line \in 1..n,
        pattern \in {"rightnow", "urgent"}}

\* the match of a text of GateTexts
GateMatches(lines) == TextHits(lines, 1)

ContextCalls(n) ==
    UNION {{[op |-> "get_sentence_context", text |-> t, position |-> p, window |-> 1] :
               p \in ContextPositions(t)} : t \in ContextTexts(n)}

GateCalls(n) ==
    UNION {{[op |-> "_check_pressure_context", text |-> t, match |-> GateMatches(t)[j]] :
               j \in 1..Len(GateMatches(t))} : t \in GateTexts(n)}

InitContext ==
    /\ pc = "ready"
    /\ engine = NoEngine
    /\ call \in ContextCalls(MaxContextLines) \cup GateCalls(MaxGateLines)
    /\ ret = NoRet

GetSentenceContext ==
    /\ pc = "ready"
    /\ call.op = "get_sentence_context"
    /\ ret' = [kind |-> "context",
               context |-> get_sentence_context(call.text, call.position, call.window)]
    /\ pc' = "done"
    /\ UNCHANGED <<engine, call>>

CheckPressureContext ==
    /\ pc = "ready"
    /\ call.op = "_check_pressure_context"
    /\ ret' = [kind |-> "bool",
               value |-> _check_pressure_context(call.text, call.match.position,
                                                 call.match.pattern)]
    /\ pc' = "done"
    /\ UNCHANGED <<engine, call>>

NextContext == GetSentenceContext \/ CheckPressureContext

SpecContext == InitContext /\ [][NextContext]_vars

\* the sentence of the text that holds the character at `position`, 0 if the
\* position lies in a delimiter run or in the white space between sentences
SentenceHolding(lines, position) ==
    LET sentences == segment_sentences(lines)
        Holds(k) ==
            /\ NormStart(lines, sentences[k].first) <= position
            /\ position < NormStart(lines, sentences[k].last)
                              + NormLineLen(lines[sentences[k].last])
    IN IF \E k \in 1..Len(sentences) : Holds(k)
       THEN CHOOSE k \in 1..Len(sentences) : Holds(k)
       ELSE 0

\* the sentences at most `window` away from sentence k
WindowAround(lines, k, window) ==
    Max(1, k - window)..Min(Len(segment_sentences(lines)), k + window)

\* C26: pressure context gate.  _check_pressure_context discards a pressure
\* match if and only if its matched text contains "right now"/"now" and the
\* +/-1-sentence window around the match contains a self-report phrase; in
\* every other case the match is retained, and a match whose text has no
\* time-urgency token is never discarded.
C26_PressureGate ==
    (pc = "done" /\ call.op = "_check_pressure_context")
    => LET k == SentenceHolding(call.text, call.match.position)
           self_report ==
               \E j \in WindowAround(call.text, k, 1) :
                   "self_report" \in SentenceFeat(call.text, segment_sentences(call.text)[j])
       IN /\ ret.value = FALSE
                <=> ("now" \in Registry[call.match.pattern].feat /\ self_report)
          /\ "now" \notin Registry[call.match.pattern].feat => ret.value = TRUE

\* C27: for every text and every character position that lies inside one of
\* its sentences, get_sentence_context(text, position, window=1) returns a
\* context that contains the sentence holding that position: never the empty
\* string and never a window centred on a different sentence.
C27_ContextHoldsSentence ==
    (/\ pc = "done"
     /\ call.op = "get_sentence_context"
     /\ SentenceHolding(call.text, call.position) # 0)
    => /\ ret.context # {}
       /\ ret.context
             = WindowAround(call.text, SentenceHolding(call.text, call.position), call.window)

(***************************************************************************)
(* C28, C29: monotonicity of the overall score                             *)
(***************************************************************************)
\* C28: get_overall_risk_score is monotone in each score.  For a fixed set of
\* categories, raising the score of any one category (all others unchanged)
\* never lowers the overall score, and hence never lowers the risk level,
\* including when the raise takes the maximum across the 0.8 boundary.
C28_MonotoneInScore ==
    AggDone
    => \A c \in DOMAIN call.category_scores :
          \A raised \in AggScores :
             raised > call.category_scores[c]
             => /\ get_overall_risk_score([call.category_scores EXCEPT ![c] = raised])
                      >= ret.overall_score
                /\ RiskRank(_determine_risk_level(
                       get_overall_risk_score([call.category_scores EXCEPT ![c] = raised])))
                      >= RiskRank(_determine_risk_level(ret.overall_score))

\* C29: more evidence never lowers the verdict.  Adding a further category
\* with a positive score to a category score map never lowers the overall
\* score returned by get_overall_risk_score, and never lowers the risk level
\* from RED to YELLOW or from YELLOW to GREEN.
C29_MoreEvidence ==
    AggDone
    => \A c \in RiskCategory \ DOMAIN call.category_scores :
          \A score \in AggScores \ {0} :
             /\ get_overall_risk_score(
                    [d \in DOMAIN call.category_scores \cup {c} |->
                        IF d = c THEN score ELSE call.category_scores[d]])
                   >= ret.overall_score
             /\ RiskRank(_determine_risk_level(get_overall_risk_score(
                    [d \in DOMAIN call.category_scores \cup {c} |->
                        IF d = c THEN score ELSE call.category_scores[d]])))
                   >= RiskRank(_determine_risk_level(ret.overall_score))

====
